----------------------------- MODULE QueryCache -----------------------------
(***************************************************************************)
(* One entry of the browser's query cache, TanStack Query as the pages of  *)
(* the admin frontend use it with the defaults of lib/query.tsx: a query   *)
(* is retried once, is fresh for five seconds, is not fetched on focus.    *)
(* An entry outlives the page that shows it.                               *)
(*                                                                         *)
(* A fetch is "sent", then "served": the server has read its state, and    *)
(* the answer (got) is under way.  The library is outside the repository;  *)
(* what is here is what the pages rely on.                                 *)
(***************************************************************************)
CONSTANT None  \* no data, no answer

\* The entry of a query nobody has asked yet.
Empty == [data |-> None, error |-> FALSE, fetch |-> "none", got |-> None]

Entries(Values) ==
  [data : Values \cup {None}, error : BOOLEAN,
   fetch : {"none", "sent", "served"}, got : Values \cup {None}]

\* isFetching.
Fetching(q) == q.fetch # "none"

\* A new request; an error is forgotten at once only if there is nothing to show.
Send(q) == [q EXCEPT !.fetch = "sent", !.got = None, !.error = @ /\ q.data # None]

\* A page mounts or an interval fires: joins the request that is under way.
Fetched(q) == IF Fetching(q) THEN q ELSE Send(q)

\* invalidateQueries of a query on the page: a request that is under way is
\* given up for a new one, unless there is no data yet: then it is joined.
Invalidated(q) == IF Fetching(q) /\ q.data = None THEN q ELSE Send(q)

\* A page mounts: it fetches; or the data are less than five seconds old (that
\* they may have been invalidated is not kept); or nobody used the entry for
\* five minutes, and it was dropped.
OnMount(q) ==
  {Fetched(q)} \cup (IF q.data = None THEN {} ELSE {q})
               \cup (IF Fetching(q) THEN {} ELSE {Send(Empty)})

Served(q, v) == [q EXCEPT !.fetch = "served", !.got = v]

Answered(q) ==
  [data |-> q.got, error |-> FALSE, fetch |-> "none", got |-> None]

\* An error status or a broken connection, and again in the one retry: an attempt
\* that fails and is retried with success counts as a request served late.
Failing(q) == [q EXCEPT !.fetch = "none", !.got = None, !.error = TRUE]

\* setQueryData: a request that is under way goes on and answers later.
SetData(q, v) == [q EXCEPT !.data = v, !.error = FALSE]
============================================================================
