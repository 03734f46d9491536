-------------------------- MODULE MCCommunityWrites --------------------------
(***************************************************************************)
(* One author who drafts, edits the two compared fields from two devices,  *)
(* submits and deletes, and one reader who comments and posts.             *)
(***************************************************************************)
EXTENDS CommunityWrites, TLC

CONSTANTS author, reader, s1, k1, k2

Req(actor, op, key, title, disclosure) ==
  [actor |-> actor, op |-> op, signal |-> s1, key |-> key,
   title |-> title, disclosure |-> disclosure]

MCRequests ==
  { Req(author, "create_draft", k1, "plain", "declared"),
    Req(author, "update_draft", k1, "promo", "keep"),
    Req(author, "update_draft", k1, "keep", "none"),
    Req(author, "update_draft", k2, "keep", "none"),
    Req(author, "submit", k1, "keep", "keep"),
    Req(author, "delete", k1, "keep", "keep"),
    Req(reader, "comment", k1, "keep", "keep"),
    Req(reader, "post", k1, "keep", "keep") }

\* Handlers differ in nothing but their name.
HandlerSymmetry == Permutations(Handlers)
=============================================================================
