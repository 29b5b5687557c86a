--------------------------- MODULE SessionQueries ---------------------------
(***************************************************************************)
(* Reading pages of a store that changes: application/handlers/            *)
(* query_handlers.rs over the in-memory repository and frame store of      *)
(* crates/pjs-core, and the HTTP handlers that call them.                  *)
(*                                                                         *)
(* One client walks the pages of a session query; another polls the frames *)
(* of a stream with the last sequence number it saw.  Between two requests *)
(* sessions are created or closed and frames are appended.  DashMap        *)
(* iterates in an order of its own, so the store is a sequence.            *)
(***************************************************************************)
EXTENDS Integers, Sequences, FiniteSets, SequencesExt, TLC

CONSTANTS
  Stores,                  \* stores to start from: sequences of sessions
  Fresh,                   \* a session that may be created during the walk
  Queries,                 \* session queries
  PollLimit,               \* limits a frame poll may ask for
  MinPriority,             \* priority filters of a frame poll; 0 is none
  MAX_PAGE_SIZE,
  MAX_PAGINATION_OFFSET,
  MAX_RESULTS_LIMIT,
  MAX_SCAN_LIMIT,
  max_frames_per_stream,
  MAX_FRAMES_PAGE_SIZE,
  None,
  MaxSequence              \* bound on the frames of the stream

(* As the constants of the limits modules: no offset that a walk from the  *)
(* first page reaches is cut off.                                          *)
ASSUME QueryAssumption == MAX_RESULTS_LIMIT <= MAX_PAGINATION_OFFSET

VARIABLES
  store,       \* sessions in iteration order
  query,       \* the query being walked
  offset,      \* where the next page starts
  pages,       \* ids received so far
  walk,        \* "idle", "reading", "done" or "failed"
  changed,     \* the store changed during the walk
  next,        \* next sequence number of the stream
  inflight,    \* frames committed but not yet appended, one batch per handler
  history,     \* the stream's frame history
  appended,    \* history variable: every frame appended, in that order
  poll,        \* the polling client: cursor, filter, and every frame it received
  total        \* total_count of the last page

vars == <<store, query, offset, pages, walk, changed, next, inflight, history, appended,
          poll, total>>
frameVars == <<next, inflight, history, appended, poll>>
walkVars == <<store, query, offset, pages, walk, changed, total>>

-----------------------------------------------------------------------------
(* Session queries.  An option is a value or None. *)

(* GetActiveSessionsQuery names no criteria at all; a search without a      *)
(* state asks for Active sessions that have not expired.                   *)
Criteria(q) ==
  IF q.kind = "list"
  THEN [state |-> None, exclude_expired |-> FALSE, after |-> None, before |-> None,
        has_active |-> None]
  ELSE [state |-> IF q.state = None THEN "Active" ELSE q.state,
        exclude_expired |-> q.state = None,
        after |-> q.after, before |-> q.before, has_active |-> q.has_active]

MinOf(a, b) == IF a < b THEN a ELSE b
MaxOf(a, b) == IF a > b THEN a ELSE b

(* A list takes the limit as it is, up to the page size; a search clamps it. *)
PageLimit(q) ==
  IF q.kind = "list" THEN MinOf(q.limit, MAX_PAGE_SIZE)
  ELSE MaxOf(1, MinOf(q.limit, MAX_PAGE_SIZE))

PageOffset(q, from) == IF q.kind = "list" THEN from ELSE MinOf(from, MAX_PAGINATION_OFFSET)

CriteriaOK(c) == c.after # None /\ c.before # None => c.after <= c.before

PaginationOK_AnyLimit(limit, from) == from <= MAX_PAGINATION_OFFSET  \* mutant: limit 0 passes

PaginationOK(limit, from) == limit > 0 /\ from <= MAX_PAGINATION_OFFSET

matches_criteria(s, c) ==
  /\ c.state # None => s.state = c.state
  /\ c.exclude_expired => ~s.expired
  /\ c.after # None => s.created_at >= c.after
  /\ c.before # None => s.created_at <= c.before
  /\ c.has_active # None => (c.has_active <=> s.active_streams > 0)

(* filter_limited: stops at the scan limit or when it has enough results. *)
filter_limited(sessions, criteria) ==
  LET Test(s) == matches_criteria(s, criteria)
      scanned == SubSeq(sessions, 1, MinOf(Len(sessions), MAX_SCAN_LIMIT))
      found == SelectSeq(scanned, Test)
  IN  SubSeq(found, 1, MinOf(Len(found), MAX_RESULTS_LIMIT))

Key(s, field) == IF field = "created_at" THEN s.created_at ELSE s.total_bytes

(* sort_by with compare_by_field, reversed for a descending order; stable. *)
SortSessions(sessions, q) ==
  LET Before(a, b) ==
        LET x == Key(a.session, q.sort_by)
            y == Key(b.session, q.sort_by)
        IN  (IF q.descending THEN x > y ELSE x < y) \/ (x = y /\ a.at < b.at)
      placed == [i \in DOMAIN sessions |-> [session |-> sessions[i], at |-> i]]
      sorted == SortSeq(placed, Before)
  IN  IF q.kind = "list" \/ q.sort_by = None THEN sessions
      ELSE [i \in DOMAIN sessions |-> sorted[i].session]

Skip(s, n) == SubSeq(s, n + 1, Len(s))
Take(s, n) == SubSeq(s, 1, MinOf(n, Len(s)))

find_sessions_by_criteria_SortsPage(sessions, q, from, limit) ==  \* mutant: sorts after paging
  LET filtered == filter_limited(sessions, Criteria(q))
      page == SortSessions(Take(Skip(filtered, from), limit), q)
  IN  [sessions |-> page, total_count |-> Len(filtered),
       has_more |-> from + Len(page) < Len(filtered)]

find_sessions_by_criteria(sessions, q, from, limit) ==
  LET filtered == filter_limited(sessions, Criteria(q))
      page == Take(Skip(SortSessions(filtered, q), from), limit)
  IN  [sessions |-> page, total_count |-> Len(filtered),
       has_more |-> from + Len(page) < Len(filtered)]

Ids(sessions) == [i \in DOMAIN sessions |-> sessions[i].id]

(* list_sessions or search_sessions for the next page: the client goes on   *)
(* from where the page ended for as long as it is told that there is more. *)
FetchPage ==
  /\ walk = "reading"
  /\ CriteriaOK(Criteria(query))
  /\ PaginationOK(PageLimit(query), PageOffset(query, offset))
  /\ \E page \in {find_sessions_by_criteria(store, query, PageOffset(query, offset),
                                            PageLimit(query))} :
       /\ pages' = pages \o Ids(page.sessions)
       /\ offset' = offset + Len(page.sessions)
       /\ total' = page.total_count
       /\ walk' = IF page.has_more THEN "reading" ELSE "done"
  /\ UNCHANGED <<store, query, changed, frameVars>>

(* validate() refuses the query. *)
FailPage ==
  /\ walk = "reading"
  /\ ~(/\ CriteriaOK(Criteria(query))
       /\ PaginationOK(PageLimit(query), PageOffset(query, offset)))
  /\ walk' = "failed"
  /\ UNCHANGED <<store, query, offset, pages, changed, total, frameVars>>

(* Other clients: a session is closed, or created anywhere in the order. *)
CloseSession(i) ==
  /\ walk = "reading" /\ pages # <<>> /\ ~changed
  /\ store[i].state = "Active"
  /\ store' = [store EXCEPT ![i].state = "Completed", ![i].active_streams = 0]
  /\ changed' = TRUE
  /\ UNCHANGED <<query, offset, pages, walk, total, frameVars>>

CreateSession(i) ==
  /\ walk = "reading" /\ pages # <<>> /\ ~changed
  /\ store' = InsertAt(store, i, Fresh)
  /\ changed' = TRUE
  /\ UNCHANGED <<query, offset, pages, walk, total, frameVars>>

-----------------------------------------------------------------------------
(* Frame polls. *)

(* A generate command takes the next number under the session's lock. *)
CommitFrame(priority) ==
  /\ poll.min_priority # None
  /\ next <= MaxSequence
  /\ Cardinality(inflight) < 2
  /\ inflight' = inflight \union {[sequence |-> next, priority |-> priority]}
  /\ next' = next + 1
  /\ UNCHANGED <<history, appended, poll, walkVars>>

(* append_frames, which handlers reach in any order. *)
AppendFrame(f) ==
  /\ inflight' = inflight \ {f}
  /\ history' = Append(IF Len(history) >= max_frames_per_stream THEN Tail(history) ELSE history, f)
  /\ appended' = Append(appended, f)
  /\ UNCHANGED <<next, poll, walkVars>>

get_frames_Newest(frames, since, min_priority, limit) ==  \* mutant: the newest that fit
  LET found == SelectSeq(frames, LAMBDA f : (since = None \/ f.sequence > since)
                                            /\ f.priority >= min_priority)
  IN  Skip(found, MaxOf(0, Len(found) - limit))

get_frames(frames, since, min_priority, limit) ==
  Take(SelectSeq(frames, LAMBDA f : (since = None \/ f.sequence > since)
                                    /\ f.priority >= min_priority), limit)

LastSeen(frames, since) ==
  LET seen == {f.sequence : f \in ToSet(frames)} \union (IF since = None THEN {} ELSE {since})
  IN  IF seen = {} THEN None ELSE CHOOSE n \in seen : \A m \in seen : m <= n

(* get_stream_frames with the highest sequence number received so far. *)
PollFrames(limit) ==
  LET page == get_frames(history, poll.since, poll.min_priority,
                         MinOf(limit, MAX_FRAMES_PAGE_SIZE))
  IN  /\ page # <<>>
      /\ poll' = [poll EXCEPT !.since = LastSeen(page, poll.since),
                              !.received = @ \o page]
      /\ UNCHANGED <<next, inflight, history, appended, walkVars>>

-----------------------------------------------------------------------------


Init ==
  /\ store = <<>> /\ query = None /\ walk = "idle"
  /\ offset = 0 /\ pages = <<>> /\ changed = FALSE /\ total = 0
  /\ next = 1 /\ inflight = {} /\ history = <<>> /\ appended = <<>>
  /\ poll = [since |-> None, min_priority |-> None, received |-> <<>>]

Starting == walk = "idle" /\ poll.min_priority = None

(* A client finds the store as it is and starts to walk, from the first    *)
(* page or from an offset of its own.  The two clients share nothing, so a *)
(* behaviour studies one of them.                                          *)
StartWalk(s, q) ==
  /\ Starting
  /\ store' = s /\ query' = q /\ walk' = "reading" /\ offset' = q.offset
  /\ UNCHANGED <<pages, changed, total, frameVars>>

StartPolling(min_priority) ==
  /\ Starting
  /\ poll' = [poll EXCEPT !.min_priority = min_priority]
  /\ UNCHANGED <<next, inflight, history, appended, walkVars>>

Next ==
  \/ \E s \in Stores, q \in Queries : StartWalk(s, q)
  \/ \E p \in MinPriority : StartPolling(p)
  \/ FetchPage \/ FailPage
  \/ \E i \in DOMAIN store : CloseSession(i)
  \/ \E i \in 1..Len(store) + 1 : CreateSession(i)
  \/ \E p \in {1, 2} : CommitFrame(p)
  \/ \E f \in inflight : AppendFrame(f)
  \/ \E n \in PollLimit : PollFrames(n)

(* The client keeps asking; nobody else has to do anything. *)
Spec == Init /\ [][Next]_vars /\ WF_vars(FetchPage \/ FailPage)

-----------------------------------------------------------------------------

Matching == {i \in DOMAIN store : matches_criteria(store[i], Criteria(query))}

(* What the client wants: of a list, the active sessions; of a search, the *)
(* sessions that match it.                                                 *)
Wanted ==
  IF query.kind = "search" THEN Matching
  ELSE {i \in DOMAIN store : store[i].state = "Active" /\ ~store[i].expired}

(* The scan sees the whole store and keeps all that it finds. *)
WithinLimits == Len(store) <= MAX_SCAN_LIMIT /\ Cardinality(Matching) <= MAX_RESULTS_LIMIT

IndexOf(id) == CHOOSE i \in DOMAIN store : store[i].id = id

(***************************************************************************)
(* Walking the pages of an unchanged store from the first one gives no     *)
(* session twice and, as long as the repository's limits are not exceeded, *)
(* every session that the client wants.  A search gives nothing else, in   *)
(* the order asked for, and total_count then says how many there are:      *)
(* paging, sorting, the filters and has_more agree with each other at      *)
(* every page boundary.  That a list gives sessions that are not active    *)
(* too, and what total_count is beyond the limits, is not claimed.         *)
(***************************************************************************)
PagesAreExact ==
  (walk = "done" /\ ~changed /\ query.offset = 0) =>
    LET returned == {IndexOf(pages[i]) : i \in DOMAIN pages}
    IN  /\ IsInjective(pages)
        /\ WithinLimits => Wanted \subseteq returned
        /\ query.kind = "search" =>
             /\ returned \subseteq Wanted
             /\ WithinLimits => total = Cardinality(Wanted)
             /\ query.sort_by # None =>
                  \A i, j \in DOMAIN pages : i < j =>
                    LET a == Key(store[IndexOf(pages[i])], query.sort_by)
                        b == Key(store[IndexOf(pages[j])], query.sort_by)
                    IN  IF query.descending THEN a >= b ELSE a <= b

(***************************************************************************)
(* A walk ends, whatever limit and offset were asked for and however the   *)
(* store changes meanwhile: a page that promises more is never empty.      *)
(***************************************************************************)
WalkEnds == (walk = "reading") ~> (walk # "reading")

(* A frame with a higher number was appended before f. *)
Overtaken(f) ==
  \E i, j \in DOMAIN appended :
    i < j /\ appended[j] = f /\ appended[i].sequence > f.sequence

(***************************************************************************)
(* A client that polls with the last sequence number it saw misses a frame *)
(* that passes its filter for two reasons only: the frame was appended     *)
(* after one with a higher number, which two handlers can do, or it is no  *)
(* longer in the history.  The limit of a page and the filter never move   *)
(* the client past a frame that was there for it in order.                 *)
(***************************************************************************)
MissedOnlyIfLate ==
  \A f \in ToSet(appended) :
    (poll.since # None /\ f.sequence <= poll.since /\ f.priority >= poll.min_priority)
      => \/ f \in ToSet(poll.received)
         \/ f \notin ToSet(history)
         \/ Overtaken(f)

=============================================================================
