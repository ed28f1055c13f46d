---------------------------- MODULE ShopReplica ----------------------------
(***************************************************************************)
(* What publishing promises.  The database holds a history of the sets of  *)
(* active offers; Shopify is a replica of it in several slots (the shared  *)
(* discount nodes, and one node per code offer), each written separately.  *)
(* Whatever happens to a publish, a slot always serves exactly its offers  *)
(* of one state the database has really been in, and never goes back to an *)
(* older one.                                                              *)
(***************************************************************************)
EXTENDS Naturals, Sequences

CONSTANTS Offers,   \* the offers of the shop
          Slots,    \* the places Shopify serves offers from
          Own       \* [Slots -> SUBSET Offers], the offers of each slot

VARIABLES hist,     \* the sets of active offers the database has held, in order
          at,       \* [Slots -> index in hist], what each slot was built from
          served    \* [Slots -> SUBSET Offers], the offers each slot serves

vars == <<hist, at, served>>

Init == /\ \E A \in SUBSET Offers : hist = <<A>>
        /\ at = [n \in Slots |-> 1]
        /\ served = [n \in Slots |-> hist[1] \cap Own[n]]

\* The merchant or the system saves another set of active offers.
Save == /\ \E A \in SUBSET Offers : hist' = Append(hist, A)
        /\ UNCHANGED <<at, served>>

\* A slot is rewritten from the state it holds or from a newer one.
Serve(n) == /\ \E k \in at[n] .. Len(hist) :
                 /\ at' = [at EXCEPT ![n] = k]
                 /\ served' = [served EXCEPT ![n] = hist[k] \cap Own[n]]
            /\ UNCHANGED hist

Next == Save \/ \E n \in Slots : Serve(n)

Spec == Init /\ [][Next]_vars
=============================================================================
