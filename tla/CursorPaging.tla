--------------------------- MODULE CursorPaging ---------------------------
(***************************************************************************)
(* The paged download of a partition (crates/providers/teralion cursor.rs): *)
(* an opaque cursor chain, read page by page, whose checkpoint is saved    *)
(* after every page that is durably staged.  A page is [of, items, next],  *)
(* `of` the symbol its ticks are of; the cursor 0 asks for the first page  *)
(* and next = 0 ends the chain.                                            *)
(***************************************************************************)
EXTENDS Naturals, Sequences

\* CursorStateMachine::new
FirstCheckpoint(key) ==
  [query |-> key, committed |-> 0, next |-> 0,
   cursors |-> {}, pages |-> {}, terminal |-> FALSE]

\* resume refuses the checkpoint of another query
QueryDrift(checkpoint, key) == checkpoint.query # key

\* parse_page and validate_tick: every tick is of the query's instrument
TickIdentityMismatch(checkpoint, page) == page.of # checkpoint.query.place

\* accept_response: why an answer to a request for checkpoint.next is refused
Answer(checkpoint, page) ==
  IF TickIdentityMismatch(checkpoint, page) THEN "TickIdentityMismatch"
  ELSE IF page \in checkpoint.pages THEN "DuplicatePage"
  ELSE IF page.next # 0 /\ page.next \in checkpoint.cursors \cup {checkpoint.next}
  THEN "CursorDidNotAdvance"
  ELSE "accepted"

\* commit_page
Committed(checkpoint, page) ==
  [checkpoint EXCEPT !.committed = @ + 1,
                     !.next = page.next,
                     !.cursors = IF page.next = 0 THEN @ ELSE @ \cup {page.next},
                     !.pages = @ \cup {page},
                     !.terminal = page.next = 0]
=============================================================================
