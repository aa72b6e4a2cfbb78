------------------------------ MODULE TrustFiles ------------------------------
(***************************************************************************)
(* The files the dashboard's trust consists of (pki.py): the collector CA, *)
(* which signs the certificates of the collectors, and for each server the *)
(* client certificate Prometheus scrapes it with, under a CA of its own,   *)
(* which the collector is told to trust at its first contact.              *)
(*                                                                         *)
(* Whoever first needs an identity makes it, with one openssl command      *)
(* after another, under a lock on its directory.  A command that fails, or *)
(* is killed after its ten seconds or with the process, leaves what it has *)
(* written so far.  An identity is taken to be there when its files are.   *)
(*                                                                         *)
(* An operator X_Slip beside X is X as a slip in the code would have it,   *)
(* to show which property would notice; nothing uses it.                   *)
(***************************************************************************)
EXTENDS Naturals, Sequences

CONSTANTS
    Servers,   \* Server IDs
    Collector, \* the owner of the collector CA
    Threads,   \* threads of requests that need a certificate
    None,      \* no one
    MaxRuns    \* bound: how often an identity is begun

ASSUME TrustAssumption ==
    /\ Collector \notin Servers
    /\ None \notin Threads
    /\ MaxRuns \in Nat

VARIABLES
    files,   \* what is in each file of each identity
    lock,    \* who holds the lock on the directory of an identity
    request, \* the threads: where they are
    rows,    \* the servers with a scrape target, staged or active, in the database
    runs     \* how many times an identity has been begun

trustVars == <<files, lock, request, rows, runs>>

-----------------------------------------------------------------------------
Owners == Servers \cup {Collector}

FileNames == {"ca.key", "ca.crt", "client.key", "client.crt"}

\* The commands in the order they are run, each with the files it writes, in the
\* order it writes them: openssl puts a key down before what it signs with it.
CollectorCommands == << <<"ca.key", "ca.crt">> >>
ScrapeClientCommands == << <<"ca.key", "ca.crt">>, <<"client.key">>, <<"client.crt">> >>
Commands(o) == IF o = Collector THEN CollectorCommands ELSE ScrapeClientCommands

FilesOf(o) == IF o = Collector THEN {"ca.key", "ca.crt"} ELSE FileNames

\* A file is known by the making of the identity that wrote it; zero is no file.
Content == [run: 0..MaxRuns, whole: BOOLEAN]
Absent == [run |-> 0, whole |-> FALSE]
Written(r) == [run |-> r, whole |-> TRUE]
Begun(r) == [run |-> r, whole |-> FALSE]

Exists(o, f) == files[o][f] # Absent

\* A slip: the key and certificate of the CA are taken for the identity.
Complete_CaAlone(o) == \A f \in {"ca.key", "ca.crt"} : Exists(o, f)

\* What the code looks at before it makes an identity, or does not.
Complete(o) == \A f \in FilesOf(o) : Exists(o, f)

\* A request needs the collector CA, then the identity of its server.
Request ==
    [at: {"idle", "wanting", "making", "issued"}, server: Servers \cup {None},
     owner: Owners \cup {None}, step: 0..3, run: 0..MaxRuns]

Idle == [at |-> "idle", server |-> None, owner |-> None, step |-> 0, run |-> 0]
Wanting(s, o) ==
    [at |-> "wanting", server |-> s, owner |-> o, step |-> 0, run |-> 0]
Making(s, o, k, r) ==
    [at |-> "making", server |-> s, owner |-> o, step |-> k, run |-> r]
Issued(s) == [at |-> "issued", server |-> s, owner |-> None, step |-> 0, run |-> 0]

\* A lock is held by the thread that makes the identity, and by no other.
LockOK ==
    \A p \in Threads, o \in Owners :
        lock[o] = p <=> request[p].at = "making" /\ request[p].owner = o

TrustTypeOK ==
    /\ files \in [Owners -> [FileNames -> Content]]
    /\ lock \in [Owners -> Threads \cup {None}]
    /\ request \in [Threads -> Request]
    /\ rows \subseteq Servers
    /\ runs \in 0..MaxRuns
    /\ LockOK

TrustInit ==
    /\ files = [o \in Owners |-> [f \in FileNames |-> Absent]]
    /\ lock = [o \in Owners |-> None]
    /\ request = [p \in Threads |-> Idle]
    /\ rows = {}
    /\ runs = 0

-----------------------------------------------------------------------------
Goes(p, state) == request' = [request EXCEPT ![p] = state]

\* Where a request is once the identity of owner o is there.
After(s, o) == IF o = Collector THEN Wanting(s, s) ELSE Issued(s)

\* First contact, renewal and rotation ask for a certificate outside the transaction
\* that decides whether the server may have it.
Asks(p, s) ==
    /\ request[p].at = "idle"
    /\ Goes(p, Wanting(s, Collector))
    /\ UNCHANGED <<files, lock, rows, runs>>

\* The lock is free, and is freed again: the files are all there.
Finds(p) ==
    LET r == request[p] IN
    /\ r.at = "wanting"
    /\ lock[r.owner] = None
    /\ Complete(r.owner)
    /\ Goes(p, After(r.server, r.owner))
    /\ UNCHANGED <<files, lock, rows, runs>>

\* A slip: no one waits for the lock.
Begins_Unlocked(p) ==
    LET r == request[p] IN
    /\ r.at = "wanting"
    /\ ~Complete(r.owner)
    /\ runs < MaxRuns
    /\ runs' = runs + 1
    /\ Goes(p, Making(r.server, r.owner, 1, runs'))
    /\ UNCHANGED <<files, lock, rows>>

Begins(p) ==
    LET r == request[p] IN
    /\ r.at = "wanting"
    /\ lock[r.owner] = None
    /\ ~Complete(r.owner)
    /\ runs < MaxRuns
    /\ lock' = [lock EXCEPT ![r.owner] = p]
    /\ runs' = runs + 1
    /\ Goes(p, Making(r.server, r.owner, 1, runs'))
    /\ UNCHANGED <<files, rows>>

Command(p) == Commands(request[p].owner)[request[p].step]
IsLast(p) == request[p].step = Len(Commands(request[p].owner))

\* Of the files of the command of p the first n are written, and then up to m begun.
Writes(p, n, m) ==
    LET r == request[p] IN
    files' = [files EXCEPT ![r.owner] = [f \in FileNames |->
        IF \E i \in 1..n : Command(p)[i] = f THEN Written(r.run)
        ELSE IF \E i \in n+1..m : Command(p)[i] = f THEN Begun(r.run)
        ELSE files[r.owner][f]]]

WritesAll(p) == Writes(p, Len(Command(p)), Len(Command(p)))

Releases(p) == lock' = [lock EXCEPT ![request[p].owner] = None]

\* A command has run, and another is to follow.
Runs(p) ==
    /\ request[p].at = "making"
    /\ ~IsLast(p)
    /\ WritesAll(p)
    /\ Goes(p, [request[p] EXCEPT !.step = @ + 1])
    /\ UNCHANGED <<lock, rows, runs>>

Completes(p) ==
    /\ request[p].at = "making"
    /\ IsLast(p)
    /\ WritesAll(p)
    /\ Releases(p)
    /\ Goes(p, After(request[p].server, request[p].owner))
    /\ UNCHANGED <<rows, runs>>

\* A command fails or is killed, or the process is, and the request ends.
Fails(p) ==
    /\ request[p].at = "making"
    /\ \E n \in 0..Len(Command(p)) - 1 : \E m \in {n, n + 1} : Writes(p, n, m)
    /\ Releases(p)
    /\ Goes(p, Idle)
    /\ UNCHANGED <<rows, runs>>

\* First contact ends with the row that names the files.
Stages(p) ==
    LET s == request[p].server IN
    /\ request[p].at = "issued"
    /\ s \notin rows
    /\ rows' = rows \cup {s}
    /\ Goes(p, Idle)
    /\ UNCHANGED <<files, lock, runs>>

\* A renewal or rotation ends, a first contact is refused after all, or the
\* process stops.
Ends(p) ==
    /\ request[p].at \in {"wanting", "issued"}
    /\ Goes(p, Idle)
    /\ UNCHANGED <<files, lock, rows, runs>>

\* Revocation, retirement or recovery: the rows go, the files stay.
Forgets(S) ==
    /\ S \subseteq rows
    /\ rows' = rows \ S
    /\ UNCHANGED <<files, lock, request, runs>>

TrustNext ==
    \/ \E p \in Threads :
          \/ \E s \in Servers : Asks(p, s)
          \/ Finds(p) \/ Begins(p) \/ Runs(p) \/ Completes(p) \/ Fails(p)
          \/ Stages(p) \/ Ends(p)
    \/ \E S \in SUBSET rows : Forgets(S)

TrustSpec == TrustInit /\ [][TrustNext]_trustVars

-----------------------------------------------------------------------------
\* From the first contact on the identity a server is scraped with is the one
\* its collector was told to trust, and the collector CA the one its
\* certificate is signed by: no later request, whatever it was interrupted by,
\* makes either again (pki.py:193, 244).
TrustStands ==
    [][\A s \in rows : files'[s] = files[s] /\ files'[Collector] = files[Collector]]_trustVars

\* The files behind a row come from one making of the identity, so that what is
\* whole among them fits together: a request that failed between two commands
\* leaves no mixture for the next to complete (pki.py:244-253).
IdentityIsOnePiece ==
    \A s \in rows : \A o \in {s, Collector} : \E r \in 1..MaxRuns :
        \A f \in FilesOf(o) : files[o][f] \in {Written(r), Begun(r)}
=============================================================================
