--------------------------- MODULE MCChatDelivery ---------------------------
(* ChatDelivery with symmetric actors, tickets, sockets and messages. *)
EXTENDS ChatDelivery, TLC

Symmetry == Permutations(Actors) \cup Permutations(Tickets)
            \cup Permutations(Sockets) \cup Permutations(Messages)
=============================================================================
