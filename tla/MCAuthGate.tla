----------------------------- MODULE MCAuthGate -----------------------------
(* Instances of the request gate for TLC. *)
EXTENDS AuthGate, TLC

\* A path for every route, with "x" for its parameters, and the prefixes alone.
Instance(pattern) == [i \in 1..Len(pattern) |-> IF pattern[i] = "*" THEN "x" ELSE pattern[i]]
RoutePaths == UNION {{Prefix[s] \o Instance(res[2]) : res \in Resources[s]} : s \in Scopes}
              \cup {<<"v1">>, <<"v1", "api">>}

\* What run_server would have to register for its routes to be reached.
SpecificFirst == <<"messages", "account", "api", "ws">>

AsRegistered == {Registered}
EitherOrder  == {Registered, SpecificFirst}

Symmetry == Permutations(Users)

=============================================================================
