---------------------------- MODULE RequestBoard ----------------------------
(***************************************************************************)
(* The board of mod requests: what members see and do there, with the      *)
(* votes, the status log and the cached description of every request       *)
(* (src/src/web/handlers/requests.rs on src/src/db/requests.rs).  How the  *)
(* installs themselves come about is the matter of ChangeQueue; here they  *)
(* are what the dashboard or a command does to the requests of a mod.  A   *)
(* command is a process of its own: the dashboard may write between its    *)
(* reading of the requests and its transaction.                            *)
(***************************************************************************)
EXTENDS Integers, Sequences, FiniteSets

CONSTANTS
  Members,      \* user ids
  Voters,       \* those that vote
  MaxVoting,    \* bound on the votes under way
  RequestIds,   \* requests of one mod, in AUTOINCREMENT order
  MaxLog,       \* bound on the entries of a status log
  NoRequest     \* no row; nobody

VARIABLES
  board,       \* id -> row, or NoRequest
  nextRequest, \* the id the next request gets
  votes,       \* request -> (member -> "up", "down" or "none")
  statusLog,   \* request -> its log entries, oldest first
  present,     \* the members there are
  installed,   \* whether the mod is installed
  voting,      \* votes under way: [by, on, up, seen], seen once get_vote ran
  reading,     \* what a command read of the requests: statuses, or NoRequest
  overtaken    \* requests a command wrote a status for that they no longer had

boardVars == <<board, nextRequest, votes, statusLog, present, installed, voting, reading, overtaken>>

Statuses == {"pending", "approved", "queued", "installed", "rejected"}
Request == [by : Members, status : Statuses, resolver : Members \cup {NoRequest}]
LogEntry == [from : Statuses, to : Statuses]
Vote == [by : Voters, on : RequestIds, up : {"up", "down"}, seen : {"unread", "up", "down", "none"}]
Reading == [to : {"approved", "installed"}, was : UNION {[S -> Statuses] : S \in SUBSET RequestIds}]

ASSUME BoardAssumption ==
  /\ IsFiniteSet(Members) /\ Voters \subseteq Members /\ RequestIds \subseteq Nat /\ MaxLog \in Nat
  /\ NoRequest \notin Members /\ NoRequest \notin Request \cup Reading

OnBoard == {r \in RequestIds : board[r] # NoRequest}
Before(r, s) == r \in OnBoard /\ board[r].status \in s

\* list_mod_requests joins in who asked, and counts the votes that members have.
Listed == {r \in OnBoard : board[r].by \in present}
Score(r) == Cardinality({u \in Voters : votes[r][u] = "up"}) - Cardinality({u \in Voters : votes[r][u] = "down"})

BoardInit ==
  /\ board = [r \in RequestIds |-> NoRequest] /\ nextRequest = 1
  /\ votes = [r \in RequestIds |-> [u \in Voters |-> "none"]]
  /\ statusLog = [r \in RequestIds |-> <<>>]
  /\ present = Members /\ installed = FALSE
  /\ voting = {} /\ reading = NoRequest /\ overtaken = {}

------------------------------------------------------------------------------
(* Transitions of a status, each with its entry in the log                 *)

ExpectedMove(to, rs, from) ==  \* Mutant: the entry names what the caller expected.
  /\ board' = [r \in RequestIds |-> IF r \in rs THEN [board[r] EXCEPT !.status = to] ELSE board[r]]
  /\ statusLog' = [r \in RequestIds |-> IF r \in rs THEN Append(statusLog[r], [from |-> "pending", to |-> to])
                                        ELSE statusLog[r]]

MoveTo(to, rs, from) ==
  /\ board' = [r \in RequestIds |-> IF r \in rs THEN [board[r] EXCEPT !.status = to] ELSE board[r]]
  /\ statusLog' = [r \in RequestIds |-> IF r \in rs THEN Append(statusLog[r], [from |-> from[r], to |-> to])
                                        ELSE statusLog[r]]

StatusOf == [r \in OnBoard |-> board[r].status]
Room(r) == Len(statusLog[r]) < MaxLog

\* transition_request_status: reads and writes in one transaction.
TransitionStatus(r, expected, to) ==
  /\ Room(r) /\ Before(r, expected) /\ MoveTo(to, {r}, StatusOf)

\* transition_request_by_forge_mod_id of the dashboard, which is alone with its lock.
TransitionByMod(expected, to) ==
  /\ \A r \in OnBoard : Room(r)
  /\ MoveTo(to, {r \in OnBoard : Before(r, expected)}, StatusOf)

------------------------------------------------------------------------------
(* The page and its forms                                                  *)

\* Only if the mod is not installed and no request for it is active.
CreateRequest(u, r) ==
  /\ u \in present /\ ~installed
  /\ r = nextRequest /\ nextRequest' = r + 1
  /\ ~\E q \in OnBoard : Before(q, {"pending", "approved", "queued", "installed"})
  /\ board' = [board EXCEPT ![r] =
       [by |-> u, status |-> "pending", resolver |-> NoRequest]]
  /\ UNCHANGED <<votes, statusLog, present, installed, voting, reading, overtaken>>

\* vote looks at the request, then at the vote there is, then writes.
StartVote(u, r, up) ==
  /\ u \in present /\ Before(r, {"pending"}) /\ Cardinality(voting) < MaxVoting
  /\ voting' = voting \cup {[by |-> u, on |-> r, up |-> up, seen |-> "unread"]}
  /\ UNCHANGED <<board, nextRequest, votes, statusLog, present, installed, reading, overtaken>>

GetVote(v) ==
  /\ v.seen = "unread"
  /\ voting' = (voting \ {v}) \cup {[v EXCEPT !.seen = votes[v.on][v.by]]}
  /\ UNCHANGED <<board, nextRequest, votes, statusLog, present, installed, reading, overtaken>>

\* The same vote again takes it back; the row needs its member.
WriteVote(v) ==
  /\ v.seen # "unread" /\ voting' = voting \ {v}
  /\ votes' = IF v.on \in OnBoard /\ v.by \in present
              THEN [votes EXCEPT ![v.on][v.by] = IF v.seen = v.up THEN "none" ELSE v.up]
              ELSE votes
  /\ UNCHANGED <<board, nextRequest, statusLog, present, installed, reading, overtaken>>

\* resolve_request: the resolver is written first, if there is none, whether or not the
\* transition then takes place.
Resolve(u, r, to) ==
  /\ u \in present /\ r \in OnBoard
  /\ LET named == [board EXCEPT ![r].resolver = IF @ = NoRequest THEN u ELSE @] IN
     IF Before(r, IF to = "approved" THEN {"pending"} ELSE {"pending", "approved"})
     THEN /\ Room(r) /\ board' = [named EXCEPT ![r].status = to]
          /\ statusLog' = [statusLog EXCEPT ![r] = Append(@, [from |-> board[r].status, to |-> to])]
     ELSE board' = named /\ UNCHANGED statusLog
  /\ UNCHANGED <<nextRequest, votes, present, installed, voting, reading, overtaken>>

Reopen(r) ==
  /\ TransitionStatus(r, {"rejected"}, "pending")
  /\ UNCHANGED <<nextRequest, votes, present, installed, voting, reading, overtaken>>

\* An approved request is queued, and given back when its operation is cancelled or fails.
QueueRequest(r) ==
  /\ TransitionStatus(r, {"approved"}, "queued") \/ TransitionStatus(r, {"queued"}, "approved")
  /\ UNCHANGED <<nextRequest, votes, present, installed, voting, reading, overtaken>>

\* The dashboard installs or removes the mod.
InstallHere ==
  /\ ~installed /\ installed' = TRUE /\ TransitionByMod({"approved", "queued"}, "installed")
  /\ UNCHANGED <<nextRequest, votes, present, voting, reading, overtaken>>
RemoveHere ==
  /\ installed /\ installed' = FALSE /\ TransitionByMod({"installed"}, "approved")
  /\ UNCHANGED <<nextRequest, votes, present, voting, reading, overtaken>>

\* A command does, and reads the requests before it begins the transaction.
CommandReads ==
  /\ reading = NoRequest /\ installed' = ~installed
  /\ reading' = [to |-> IF installed THEN "approved" ELSE "installed", was |-> StatusOf]
  /\ UNCHANGED <<board, nextRequest, votes, statusLog, present, voting, overtaken>>
CommandWrites ==
  /\ reading # NoRequest /\ reading' = NoRequest
  /\ LET from == IF reading.to = "installed" THEN {"approved", "queued"} ELSE {"installed"}
         moved == {r \in OnBoard \cap DOMAIN reading.was : reading.was[r] \in from}
     IN /\ \A r \in moved : Room(r)
        /\ MoveTo(reading.to, moved, reading.was)
        /\ overtaken' = overtaken \cup {r \in moved : reading.was[r] # board[r].status}
  /\ UNCHANGED <<nextRequest, votes, present, installed, voting>>

\* A command that is killed in between leaves the requests as they are.
CommandDies ==
  /\ reading # NoRequest /\ reading' = NoRequest
  /\ UNCHANGED <<board, nextRequest, votes, statusLog, present, installed, voting, overtaken>>

\* An account is deleted: its requests and votes with it, its name from what it resolved.
MemberGoes(u) ==
  LET gone == {r \in OnBoard : board[r].by = u} IN
  /\ u \in present /\ present' = present \ {u}
  /\ board' = [r \in RequestIds |->
       IF r \notin OnBoard \/ r \in gone THEN NoRequest
       ELSE [board[r] EXCEPT !.resolver = IF @ = u THEN NoRequest ELSE @]]
  /\ votes' = [r \in RequestIds |-> [w \in Voters |-> IF r \in gone \/ w = u THEN "none" ELSE votes[r][w]]]
  /\ statusLog' = [r \in RequestIds |-> IF r \in gone THEN <<>> ELSE statusLog[r]]
  /\ UNCHANGED <<nextRequest, installed, voting, reading, overtaken>>

BoardNext ==
  \/ \E u \in Members, r \in RequestIds :
       \/ CreateRequest(u, r)
       \/ \E to \in {"approved", "rejected"} : Resolve(u, r, to)
  \/ \E u \in Voters, r \in RequestIds, up \in {"up", "down"} : StartVote(u, r, up)
  \/ \E v \in voting : GetVote(v) \/ WriteVote(v)
  \/ \E r \in RequestIds : Reopen(r) \/ QueueRequest(r)
  \/ InstallHere \/ RemoveHere \/ CommandReads \/ CommandWrites \/ CommandDies
  \/ \E u \in Members : MemberGoes(u)

BoardSpec == BoardInit /\ [][BoardNext]_boardVars

BoardTypeOK ==
  /\ board \in [RequestIds -> Request \cup {NoRequest}] /\ nextRequest \in Nat
  /\ votes \in [RequestIds -> [Voters -> {"up", "down", "none"}]]
  /\ statusLog \in [RequestIds -> Seq(LogEntry)] /\ \A r \in RequestIds : Len(statusLog[r]) <= MaxLog
  /\ present \subseteq Members /\ installed \in BOOLEAN
  /\ voting \subseteq Vote /\ reading \in Reading \cup {NoRequest}
  /\ overtaken \subseteq RequestIds

------------------------------------------------------------------------------
\* The history a card shows is the whole story of the request, whoever moved it: it
\* starts at "pending", each entry starts where the one before ended, and the last one
\* ended at the status there is.  A request that a command overtook is excepted.  And every
\* request is listed, names no one who is gone, and scores no vote of one who is.
HistoryIsWhole ==
  \A r \in OnBoard :
    LET log == statusLog[r]
        befores == [i \in 1..Len(log) |-> log[i].from]
        afters == <<"pending">> \o [i \in 1..Len(log) |-> log[i].to]
    IN /\ r \notin overtaken => afters = Append(befores, board[r].status)
       /\ r \in Listed /\ board[r].resolver \in present \cup {NoRequest}
       /\ Score(r) \in -Cardinality(present)..Cardinality(present)
=============================================================================
