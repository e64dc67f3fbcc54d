-------------------------- MODULE ExternalBoundary --------------------------
(***************************************************************************)
(* What the effect system promises about an idempotency key, without any   *)
(* host, store, record or event: the external boundary is crossed by one   *)
(* operation at a time, each under a token of its own, and it is sealed    *)
(* for ever once a success has been recorded.                              *)
(***************************************************************************)
CONSTANTS Keys, Tokens

VARIABLES
    boundary,   \* "open", "crossing" or "sealed", for each key
    spent       \* the tokens each key has used

bvars == <<boundary, spent>>

Init ==
    /\ boundary = [k \in Keys |-> "open"]
    /\ spent = [k \in Keys |-> {}]

Cross(k) ==
    /\ boundary[k] = "open"
    /\ \E t \in Tokens :
          /\ \A j \in Keys : t \notin spent[j]
          /\ spent' = [spent EXCEPT ![k] = @ \cup {t}]
    /\ boundary' = [boundary EXCEPT ![k] = "crossing"]

Return(k) ==
    /\ boundary[k] = "crossing"
    /\ boundary' = [boundary EXCEPT ![k] = "open"]
    /\ UNCHANGED spent

Seal(k) ==
    /\ boundary[k] = "open"
    /\ spent[k] # {}
    /\ boundary' = [boundary EXCEPT ![k] = "sealed"]
    /\ UNCHANGED spent

Next == \E k \in Keys : Cross(k) \/ Return(k) \/ Seal(k)

Spec == Init /\ [][Next]_bvars

=============================================================================
