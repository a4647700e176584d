----------------------------- MODULE MCRestToken -----------------------------
(* An instance of RestToken.  Sessions and tokens are interchangeable: of   *)
(* those that are unused, it always takes the same.  The list of tokens is  *)
(* dropped once.                                                            *)
EXTENDS RestToken

NewSession == CHOOSE s \in Session : Fresh(s)
NewToken   == CHOOSE t \in Token : \A p \in Proc : token[p] # t

Bounds ==
    /\ \A s \in live' \ live : s = NewSession
    /\ list' \in Token \ {list} => list' = NewToken
    /\ unverified => (list' = NoToken => list = NoToken) /\ \A p \in Proc : ~BadCertificate(p)
=============================================================================
