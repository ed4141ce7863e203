------------------------- MODULE CollaborationBoard -------------------------
(***************************************************************************)
(* SqliteCollaborationBackend as its readers see it: the recent entries    *)
(* and the matches of a search page by page, the notifications of a peer's *)
(* entries, and threads, in a shared or an actor-private scope.  Entries    *)
(* arrive between the pages.                                               *)
(*                                                                         *)
(* One reader at a time follows the cursors of one view; a cursor is signed *)
(* and bound to its reader, operation and query, so one of another view is *)
(* refused.  Left out: idempotency keys and publications (module            *)
(* ArtifactPublication), the audit table, and reset(), which src/ never     *)
(* calls.                                                                  *)
(***************************************************************************)
EXTENDS Integers, Sequences, FiniteSetsExt

CONSTANTS Posters,       \* the actors of the campaign
          Words,         \* bodies, each the query that finds it
          BoardSize,     \* bound on the entries
          PageSize

ASSUME BoardAssumption == BoardSize \in Nat /\ PageSize \in Nat \ {0}

VARIABLES scopeKind,     \* the visibility of the scope, "none" before provision()
          posts,         \* table entries, in the order of sequence
          view           \* the reader and what it has been told

boardVars == <<scopeKind, posts, view>>

Scopes == {"actor_private", "organisation_shared"}
Posted == 1..Len(posts)
NoView == [reader |-> "nobody"]

BoardInit == scopeKind = "none" /\ posts = <<>> /\ view = NoView

(* provision(): the scope of a campaign keeps its visibility.               *)
Provision(s) ==
    /\ scopeKind = "none"
    /\ scopeKind' = s
    /\ UNCHANGED <<posts, view>>

(* _visibility_clause(): which entries a query of actor a selects from.     *)
VisibleTo(a) == {i \in Posted : scopeKind = "actor_private" => posts[i].actor = a}

ActorSequence(a) == Cardinality({i \in Posted : posts[i].actor = a}) + 1

(* publish(): an entry answers one its author can see and joins its thread; *)
(* 0 is no reply.                                                           *)
PostEntry(a, word, reply) ==
    /\ scopeKind # "none"
    /\ Len(posts) < BoardSize
    /\ reply \in VisibleTo(a) \cup {0}
    /\ posts' = Append(posts, [actor |-> a, body |-> word, reply |-> reply,
           actorSequence |-> ActorSequence(a),
           root |-> IF reply = 0 THEN Len(posts) + 1 ELSE posts[reply].root])
    /\ UNCHANGED <<scopeKind, view>>

(* _sequence_column(): the number an entry is ordered by and shown with.    *)
SequenceColumn(i) == IF scopeKind = "actor_private" THEN posts[i].actorSequence ELSE i

(* A reader begins an operation without a cursor.                           *)
OpenView(a, operation, query) ==
    /\ scopeKind # "none"
    /\ view' = [reader |-> a, operation |-> operation, query |-> query,
                after |-> 0, told |-> <<>>, ended |-> FALSE, of |-> 0]
    /\ UNCHANGED <<scopeKind, posts>>

Matching(i) == view.operation = "search" => posts[i].body = view.query

(* The rows after the cursor, all of them, in the order of their number.    *)
RowsAfter(S) ==
    LET after == {i \in S : SequenceColumn(i) > view.after}
    IN  {rows \in [1..Cardinality(after) -> after] :
            /\ \A i \in after : \E k \in DOMAIN rows : rows[k] = i
            /\ \A k, l \in DOMAIN rows :
                  k < l => SequenceColumn(rows[k]) < SequenceColumn(rows[l])}

(* The page the reader is told: the first of the limit + 1 selected rows.   *)
PageOf(rows) == IF Len(rows) > PageSize THEN SubSeq(rows, 1, PageSize) ELSE rows

Told(page) == view.told \o [k \in 1..Len(page) |-> <<page[k], SequenceColumn(page[k])>>]

(* Mutant: a page that is just full has a successor.                        *)
EntryPageFull ==
    /\ view # NoView /\ view.operation \in {"recent", "search"} /\ ~view.ended
    /\ \E rows \in RowsAfter({i \in VisibleTo(view.reader) : Matching(i)}) :
          view' = [view EXCEPT !.told = Told(PageOf(rows)), !.of = Len(posts),
              !.ended = Len(rows) <= PageSize,
              !.after = IF Len(rows) > PageSize THEN SequenceColumn(rows[PageSize + 1]) ELSE @]
    /\ UNCHANGED <<scopeKind, posts>>

(* _entry_page() of list_recent() and search(): there is a next cursor when *)
(* a row is left over, and it is the number of the last row shown.          *)
EntryPage ==
    /\ view # NoView /\ view.operation \in {"recent", "search"} /\ ~view.ended
    /\ \E rows \in RowsAfter({i \in VisibleTo(view.reader) : Matching(i)}) :
          view' = [view EXCEPT !.told = Told(PageOf(rows)), !.of = Len(posts),
              !.ended = Len(rows) <= PageSize,
              !.after = IF Len(rows) > PageSize THEN SequenceColumn(rows[PageSize]) ELSE @]
    /\ UNCHANGED <<scopeKind, posts>>

(* notifications(): peers' entries of a shared scope; the cursor moves to   *)
(* the last row of a full page, else to the last number the reader can see. *)
Notifications ==
    LET peers == IF scopeKind = "actor_private" THEN {}
                 ELSE {i \in Posted : posts[i].actor # view.reader}
        last  == Max({SequenceColumn(i) : i \in VisibleTo(view.reader)} \cup {0})
    IN  /\ view # NoView /\ view.operation = "notifications"
        /\ \E rows \in RowsAfter(peers) :
              view' = [view EXCEPT !.told = Told(PageOf(rows)),
                  !.after = IF Len(rows) > PageSize THEN SequenceColumn(rows[PageSize]) ELSE last]
        /\ UNCHANGED <<scopeKind, posts>>

(* get_thread(): every entry of the thread that the reader can see.         *)
GetThread(i) ==
    /\ view # NoView /\ view.operation = "thread" /\ ~view.ended
    /\ i \in VisibleTo(view.reader)
    /\ \E rows \in RowsAfter({j \in VisibleTo(view.reader) : posts[j].root = posts[i].root}) :
          view' = [view EXCEPT !.ended = TRUE, !.of = Len(posts), !.query = i, !.told = Told(rows)]
    /\ UNCHANGED <<scopeKind, posts>>

Views == {"recent", "search", "notifications", "thread"}

BoardNext ==
    \/ \E s \in Scopes : Provision(s)
    \/ \E a \in Posters, w \in Words, r \in 0..BoardSize : PostEntry(a, w, r)
    \/ \E a \in Posters, o \in Views : \E q \in IF o = "search" THEN Words ELSE {0} :
          OpenView(a, o, q)
    \/ EntryPage \/ Notifications
    \/ \E i \in Posted : GetThread(i)

BoardSpec == BoardInit /\ [][BoardNext]_boardVars
-----------------------------------------------------------------------------
(* The entries that answer one another, directly or through others.         *)
Connected(i) ==
    {j \in Posted : \A C \in SUBSET Posted :
        /\ i \in C
        /\ \A k, l \in Posted : posts[k].reply = l => (k \in C <=> l \in C)
        => j \in C}

(* What the view should show of the first n entries of the board.           *)
Wanted(n) ==
    LET seen == {i \in 1..n : scopeKind = "actor_private" => posts[i].actor = view.reader}
    IN  CASE view.operation = "recent" -> seen
          [] view.operation = "search" -> {i \in seen : posts[i].body = view.query}
          [] view.operation = "notifications" -> {i \in seen : posts[i].actor # view.reader}
          [] view.operation = "thread" /\ view.ended -> seen \cap Connected(view.query)
          [] OTHER -> {}

(* Whenever entries arrive between two pages: a reader is told of the       *)
(* entries its view stands for, in order and once each; when the last page  *)
(* came it had been told of all that stood then; and in an actor-private    *)
(* scope the numbers it is shown, its cursor included, count its own        *)
(* entries only.                                                            *)
PagesAreExact ==
    view # NoView =>
        LET n     == Len(view.told)
            told  == [k \in 1..n |-> view.told[k][1]]
            shown == {told[k] : k \in 1..n}
        IN  /\ \A k, l \in 1..n : k < l => told[k] < told[l]
            /\ shown \subseteq Wanted(Len(posts))
            /\ \A i \in Wanted(Len(posts)), k \in 1..n : i <= told[k] => i \in shown
            /\ view.ended => shown = Wanted(view.of)
            /\ view.operation = "notifications" /\ scopeKind = "organisation_shared" =>
                   shown = Wanted(view.after)
            /\ scopeKind = "actor_private" =>
                   /\ \A k \in 1..n : view.told[k][2] =
                          Cardinality({i \in 1..told[k] : posts[i].actor = view.reader})
                   /\ view.after < ActorSequence(view.reader)
=============================================================================
