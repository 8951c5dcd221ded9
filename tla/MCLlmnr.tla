------------------------------ MODULE MCLlmnr ------------------------------
(***************************************************************************)
(* An instance of Llmnr for TLC: a resolver on each family, the host's     *)
(* name with and without a dot, and queries that differ from a regular one *)
(* in one respect each.                                                    *)
(***************************************************************************)
EXTENDS Llmnr, TLC

CONSTANTS r4, r6, i4, i6

MCOnSubnet == (i4 :> {r4}) @@ (i6 :> {r6})
MCLower    == ("clio" :> "clio") @@ ("CLIO" :> "clio") @@ ("lan" :> "lan")
MCHostName == { << "clio" >>, << "clio", "lan" >> }

Base == [short |-> FALSE, bits |-> {}, qdcount |-> 1, ancount |-> 0,
         nscount |-> 0, arcount |-> 0, labels |-> << << "CLIO" >> >>,
         complete |-> TRUE, qtype |-> "A", qclass |-> "IN"]

Queries ==
    { Base,
      [Base EXCEPT !.qtype = "AAAA", !.bits = {"T"}, !.arcount = 1],
      [Base EXCEPT !.labels = << << "clio" >>, << "lan" >> >>],
      [Base EXCEPT !.labels = << << "clio", "lan" >> >>],
      [Base EXCEPT !.complete = FALSE] }
    \cup {[Base EXCEPT !.bits = {b}] : b \in {"QR", "C"}}
    \cup { [Base EXCEPT !.short = TRUE],
           [Base EXCEPT !.qdcount = 2],
           [Base EXCEPT !.ancount = 1],
           [Base EXCEPT !.labels = << >>],
           [Base EXCEPT !.labels = << << "clio" >>, Pointer >>],
           [Base EXCEPT !.qtype = "other"],
           [Base EXCEPT !.qclass = "other"] }

MCQuery == (r4 :> Queries) @@ (r6 :> {[Base EXCEPT !.qtype = "AAAA"]})
MCMaxAsks == (r4 :> 1) @@ (r6 :> 2)
=============================================================================
