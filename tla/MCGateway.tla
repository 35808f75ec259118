----------------------------- MODULE MCGateway -----------------------------
(***************************************************************************)
(* Gateway for TLC: the values that name nothing, and the symmetries.      *)
(***************************************************************************)
EXTENDS Gateway, TLC

CONSTANTS s0, s1

NoEventValue == [to |-> {NoUser}, targets |-> {}, n |-> 0]

\* The sessions that tickets carry, as the service takes them
ServiceSessions == {s0, s1}
HandlerSessions == {s0}

\* What the services broadcast: each message is for one user.
OneUser == {{u} : u \in Users}

\* What the broadcaster takes beside it: messages for several users, here for all
AllUsers == {Users}

Symmetry == Permutations(Hubs) \cup Permutations(Conns) \cup Permutations(Users)
=============================================================================
