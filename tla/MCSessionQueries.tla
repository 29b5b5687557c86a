-------------------------- MODULE MCSessionQueries --------------------------
(* SessionQueries over stores of three to five sessions. *)
EXTENDS SessionQueries

Session(id, state, expired, created, bytes, active) ==
  [id |-> id, state |-> state, expired |-> expired, created_at |-> created,
   total_bytes |-> bytes, active_streams |-> active]

Profile(id) ==
  {Session(id, "Active", FALSE, 1, 2, 1), Session(id, "Active", FALSE, 2, 1, 0),
   Session(id, "Active", TRUE, 2, 1, 0), Session(id, "Completed", FALSE, 1, 1, 0)}

MCStores ==
  {<<a, b, Session(3, "Active", FALSE, 1, 1, 0)>> : a \in Profile(1), b \in Profile(2)}
    \union {<<Session(1, "Active", FALSE, 1, 2, 1), b, c, Session(4, "Active", FALSE, 2, 1, 0)>>
            : b \in Profile(2), c \in Profile(3)}
    \union {[i \in 1..5 |-> Session(i, "Active", FALSE, i, 6 - i, 0)]}

MCFresh == Session(9, "Active", FALSE, 2, 2, 0)

MCQueries ==
  LET NoFilter == [state |-> None, after |-> None, before |-> None, has_active |-> None]
      Filters == {NoFilter, [NoFilter EXCEPT !.state = "Completed"],
                  [NoFilter EXCEPT !.has_active = TRUE], [NoFilter EXCEPT !.has_active = FALSE],
                  [NoFilter EXCEPT !.after = 2], [NoFilter EXCEPT !.before = 1],
                  [NoFilter EXCEPT !.after = 2, !.before = 1]}
  IN  {[kind |-> "list", limit |-> n, offset |-> o] : n \in 0..3, o \in {0, 6}}
        \union {[kind |-> "search", limit |-> 2, offset |-> 6, sort_by |-> None, descending |-> FALSE,
                 state |-> None, after |-> None, before |-> None, has_active |-> None]}
        \union {[kind |-> "search", limit |-> n, offset |-> 0, sort_by |-> s, descending |-> d,
                 state |-> f.state, after |-> f.after, before |-> f.before,
                 has_active |-> f.has_active]
                : n \in 0..2, s \in {None, "created_at", "total_bytes"}, d \in BOOLEAN,
                  f \in Filters}

=============================================================================
