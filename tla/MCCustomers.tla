----------------------------- MODULE MCCustomers ----------------------------
(* Small instances of Customers and of the reports about them.              *)
EXTENDS Reports

CONSTANTS c1, c2, k1, k2

\* +65 8123 4567 and +1 658 123 4567: the national number of one is the other's in full
MCPhoneOf == c1 :> <<6, 5, 8, 1, 2, 3, 4, 5, 6, 7>> @@ c2 :> <<1, 6, 5, 8, 1, 2, 3, 4, 5, 6, 7>>

\* the second as it is dialled at home, with and without a trunk prefix, and the first from abroad
MCTyped == c1 :> {<<0, 0, 6, 5, 8, 1, 2, 3, 4, 5, 6, 7>>}
        @@ c2 :> {<<6, 5, 8, 1, 2, 3, 4, 5, 6, 7>>, <<0, 6, 5, 8, 1, 2, 3, 4, 5, 6, 7>>}

\* two people of one campaign, one of them brought in again by another
MCLeadsOf == c1 :> <<[source |-> "click_to_whatsapp", campaign |-> k1],
                     [source |-> "lead_ad", campaign |-> k2]>>
          @@ c2 :> <<[source |-> "manual", campaign |-> k1]>>

SessionSymmetry == Permutations(Slots) \cup Permutations(Numbers)

=============================================================================
