-------------------------- MODULE MCEncryptorIndex --------------------------
(***************************************************************************)
(* Servers, threads and symmetry for EncryptorIndex.                       *)
(***************************************************************************)
EXTENDS EncryptorIndex, TLC

CONSTANTS s1, s2, a, b, c

(* Two threads of one server, one of another.                              *)
MCServerOf == (a :> s1) @@ (b :> s1) @@ (c :> s2)
SameServer == (a :> s1) @@ (b :> s1)
TwoServers == (a :> s1) @@ (c :> s2)

=============================================================================
