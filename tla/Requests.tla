------------------------------ MODULE Requests ------------------------------
(***************************************************************************)
(* The life of a request, for the modules of the member services and of    *)
(* the back office: get_db opens a session, the handler reads the rows it  *)
(* needs, checks them, and its commit makes everything it wrote visible at *)
(* once.  Nothing locks what a handler has only read.  A request whose     *)
(* check fails changes nothing and is not a step; one that fails later is  *)
(* rolled back when its session is closed.                                 *)
(*                                                                         *)
(* db is a record with one field for each table.  A handler is given by    *)
(* the jobs it may be asked to do, what it reads for a job, what it checks *)
(* of what it read, and what it writes.                                    *)
(*                                                                         *)
(* What a serializable database refuses is a cycle: a commit after a row   *)
(* that the handler read was written by a request which in turn overwrote, *)
(* or read before it was written, a row of the handler.  That a row was    *)
(* only read, and by a handler whose rows the writer never looks at, does  *)
(* not refuse the commit.  So each handler says which of the rows it read  *)
(* are guarded: those it writes too, and those whose writers read what it  *)
(* writes.  What it reads beside them may be stale when it commits.        *)
(***************************************************************************)
EXTENDS Naturals, FiniteSets

CONSTANTS Sessions,
          Isolation,   \* "read_committed" or "serializable"
          Desks,       \* the sets of operations that one behaviour may offer
          MaxRequests, \* bound on requests
          MaxTime      \* bound on the clock

ASSUME RequestsAssumption ==
    /\ Isolation \in {"read_committed", "serializable"}
    /\ MaxRequests \in Nat
    /\ MaxTime \in Nat

VARIABLES db,      \* the committed rows
          session, \* what each session does: its handler, its job, what it read
          served,  \* requests so far
          desk,    \* the operations offered
          now       \* the clock of the server

\* the tables of f and of g
Beside(f, g) ==
    [t \in DOMAIN f \cup DOMAIN g |-> IF t \in DOMAIN f THEN f[t] ELSE g[t]]

requests == <<db, session, served, desk, now>>

Idle == [op |-> "idle"]

RequestsInit ==
    /\ session = [s \in Sessions |-> Idle]
    /\ served = 0
    /\ desk \in Desks
    /\ now = 0

RequestsTypeOK ==
    /\ \A s \in Sessions : session[s] = Idle
                             \/ /\ DOMAIN session[s] = {"op", "job", "view"}
                                /\ session[s].op \in desk
    /\ served \in 0 .. MaxRequests
    /\ desk \in Desks
    /\ now \in 0 .. MaxTime

\* The session of s has read view for job j
Opened(s, op, j, view) ==
    /\ session[s] = Idle
    /\ op \in desk
    /\ session' = [session EXCEPT ![s] = [op |-> op, job |-> j, view |-> view]]
    /\ UNCHANGED <<db, desk, now>>

\* Mutant: a commit nobody validates, whatever the isolation level
NeverRefused(s, same) == TRUE

\* A serializable database refuses a commit unless the rows it guards are the
\* same as when they were read.  The request then ends in Failed: its retry
\* commits a session that the rollback has emptied.
MayCommit(s, same) == Isolation = "serializable" => same

\* commit, which leaves after
Committed(s, op, same, after) ==
    /\ session[s].op = op
    /\ MayCommit(s, same)
    /\ db' = after
    /\ session' = [session EXCEPT ![s] = Idle]
    /\ UNCHANGED <<served, desk, now>>

\* Most handlers write the rows they read.
SameRows(j, view, rows) == rows = view

\* One handler: a request for one of jobs is read and checked, or committed.
\* Same compares what was read with the rows there are now, as far as the
\* database guards them.
ServesWhile(s, op, jobs, Reads(_, _), Accepts(_, _), Same(_, _, _), Writes(_, _, _)) ==
    \/ /\ served < MaxRequests
       /\ \E j \in jobs : /\ Accepts(j, Reads(j, db))
                          /\ Opened(s, op, j, Reads(j, db))
       /\ served' = served + 1
    \/ LET work == session[s] IN
       Committed(s, op, Same(work.job, work.view, Reads(work.job, db)),
                 Writes(work.job, work.view, db))

Serves(s, op, jobs, Reads(_, _), Accepts(_, _), Writes(_, _, _)) ==
    ServesWhile(s, op, jobs, Reads, Accepts, SameRows, Writes)

\* An error, a lost connection or a refused commit: get_db closes the
\* session, which rolls it back
Failed(s) ==
    /\ session[s] # Idle
    /\ session' = [session EXCEPT ![s] = Idle]
    /\ UNCHANGED <<db, served, desk, now>>

TimePasses ==
    /\ now < MaxTime
    /\ now' = now + 1
    /\ UNCHANGED <<db, session, served, desk>>
=============================================================================
