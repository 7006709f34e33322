----------------------------- MODULE QueryCache -----------------------------
(***************************************************************************)
(* The part of TanStack Query 5 that the two consoles rely on: one cached   *)
(* entry per query key.  The library is not in the repository; its          *)
(* behaviour is modelled from how App.jsx configures it (one retry, no      *)
(* refetch on focus, staleTime 0) and how the pages use useQuery and        *)
(* invalidateQueries.                                                       *)
(*                                                                          *)
(*   data     the last answer, NoData before the first one                  *)
(*   failed   the last fetch failed, its retry included (isError)           *)
(*   flight   the fetch under way: none, not read by the server yet, or     *)
(*            read and on its way back with "got"                           *)
(*   want     the parameter that fetch sends                                *)
(*   joined   an invalidation was absorbed by a fetch already under way,    *)
(*            whose answer counts as fresh nevertheless                     *)
(***************************************************************************)
CONSTANT NoData

\* The parameter of a list that has none.
Nothing == ""

NewQuery == [data |-> NoData, failed |-> FALSE, flight |-> "none", got |-> NoData,
             want |-> Nothing, joined |-> FALSE]

QueryOf(Answers, Wants) ==
    [data: Answers \cup {NoData}, failed: BOOLEAN, flight: {"none", "asked", "read"},
     got: Answers \cup {NoData}, want: Wants, joined: BOOLEAN]

Idle(q) == q.flight = "none"

\* `!isLoading && !isError`: the rows are rendered.
Shown(q) == q.data # NoData /\ ~q.failed

\* A fetch that replaces the one under way, if any.  An entry that failed
\* before its first answer shows its loading state again.
Asked(q, want) ==
    [q EXCEPT !.flight = "asked", !.got = NoData, !.want = want, !.joined = FALSE,
              !.failed = @ /\ q.data # NoData]

\* A component with the query mounts, is enabled, or moves to this key: the
\* entry is always stale (staleTime 0), and a fetch under way is shared.
Observed(q, want) == IF Idle(q) THEN Asked(q, want) ELSE q

\* invalidateQueries: an entry in use is fetched again, which cancels the fetch
\* under way when there is data to show meanwhile, and joins it when there is
\* none; any other entry is fetched when it is next used.
Invalidated(q, used, want) ==
    IF used /\ (Idle(q) \/ q.data # NoData) THEN Asked(q, want)
    ELSE [q EXCEPT !.joined = ~Idle(q)]

\* The server evaluates the request, and its answer is stored.
Read(q, answer) == [q EXCEPT !.flight = "read", !.got = answer]
Stored(q) == [NewQuery EXCEPT !.data = q.got, !.joined = q.joined]

\* The fetch and its retry failed: what was shown stays cached, under an error.
Failed(q) == [q EXCEPT !.flight = "none", !.want = Nothing, !.failed = TRUE]
=============================================================================
