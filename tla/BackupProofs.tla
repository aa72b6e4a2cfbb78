----------------------------- MODULE BackupProofs -----------------------------
(***************************************************************************)
(* For any servers and threads, and whatever fails or is killed in between *)
(* which commands: an identity behind a row comes from one making of it,   *)
(* and is never made again.  That is proved of TrustFiles alone, first.    *)
(*                                                                         *)
(* Whatever is made, staged, revoked or killed while a backup copies, what *)
(* is restored from it is what the collectors trust.  The database is      *)
(* copied first, so the owners it and prometheus.yml name are complete     *)
(* before their files are copied, and an identity that is complete is      *)
(* never made again.                                                       *)
(***************************************************************************)
EXTENDS Backup, TLAPS

-----------------------------------------------------------------------------
\* The file that is written last, and so is there only when the others are.
LastFile(o) == IF o = Collector THEN "ca.crt" ELSE "client.crt"

Has(o) == files[o][LastFile(o)] # Absent

From(o, r) == \A f \in FilesOf(o) : files[o][f] \in {Written(r), Begun(r)}
OnePiece(o) == \E r \in 1..MaxRuns : From(o, r)

\* The files of the commands before the one a request is at.
Before(o, k) ==
    {f \in FilesOf(o) : \/ k >= 2 /\ f \in {"ca.key", "ca.crt"}
                        \/ k = 3 /\ f = "client.key"}

Steps(o) == IF o = Collector THEN 1..1 ELSE 1..3

RequestOK(r) ==
    /\ r.at # "idle" => r.server \in Servers
    /\ r.at \in {"wanting", "making"} => r.owner \in {Collector, r.server}
    /\ r.at \in {"wanting", "making"} /\ r.owner # Collector => Has(Collector)
    /\ r.at = "issued" => Has(Collector) /\ Has(r.server)
    /\ r.at = "making" =>
           /\ r.step \in Steps(r.owner)
           /\ r.run \in 1..MaxRuns
           /\ ~Has(r.owner)
           /\ \A f \in Before(r.owner, r.step) : files[r.owner][f] = Written(r.run)

IInv ==
    /\ TrustTypeOK
    /\ \A p \in Threads : RequestOK(request[p])
    /\ \A s \in rows : Has(s) /\ Has(Collector)
    /\ \A o \in Owners : Has(o) => OnePiece(o)

-----------------------------------------------------------------------------
(***************************************************************************)
(* What the files of an identity say.                                      *)
(***************************************************************************)
LEMMA OwnerFiles ==
    ASSUME NEW o \in Owners
    PROVE  FilesOf(o) \subseteq FileNames /\ LastFile(o) \in FilesOf(o)
  BY DEF FilesOf, FileNames, LastFile

LEMMA CompleteIsHas ==
    ASSUME IInv, NEW o \in Owners
    PROVE  Complete(o) <=> Has(o)
  <1>1. Complete(o) => Has(o)
    BY OwnerFiles DEF Complete, Exists, Has
  <1>2. ASSUME Has(o) PROVE Complete(o)
    <2>1. PICK r \in 1..MaxRuns : From(o, r)
      BY <1>2 DEF IInv, OnePiece
    <2>2. r # 0
      BY TrustAssumption
    <2>3. QED
      BY <2>1, <2>2 DEF From, Complete, Exists, Written, Begun, Absent
  <1>3. QED
    BY <1>1, <1>2

\* The command a request is at.
LEMMA CommandOf ==
    ASSUME IInv, NEW p \in Threads, request[p].at = "making",
           NEW o, o = request[p].owner
    PROVE  /\ o \in Owners
           /\ \/ /\ o = Collector /\ request[p].step = 1 /\ IsLast(p)
                 /\ Command(p) = <<"ca.key", "ca.crt">> /\ Len(Command(p)) = 2
              \/ /\ o # Collector /\ request[p].step = 1 /\ ~IsLast(p)
                 /\ Command(p) = <<"ca.key", "ca.crt">> /\ Len(Command(p)) = 2
              \/ /\ o # Collector /\ request[p].step = 2 /\ ~IsLast(p)
                 /\ Command(p) = <<"client.key">> /\ Len(Command(p)) = 1
              \/ /\ o # Collector /\ request[p].step = 3 /\ IsLast(p)
                 /\ Command(p) = <<"client.crt">> /\ Len(Command(p)) = 1
  <1> DEFINE k == request[p].step
  <1>1. o \in Owners /\ k \in Steps(o)
    BY DEF IInv, RequestOK, Owners
  <1>2. CASE o = Collector
    BY <1>1, <1>2 DEF Steps, Command, IsLast, Commands, CollectorCommands
  <1>3. CASE o # Collector
    <2>1. k \in {1, 2, 3}
      BY <1>1, <1>3 DEF Steps
    <2>2. Commands(o) = ScrapeClientCommands /\ Len(ScrapeClientCommands) = 3
      BY <1>3 DEF Commands, ScrapeClientCommands
    <2>3. QED
      BY <1>1, <1>3, <2>1, <2>2 DEF Command, IsLast, ScrapeClientCommands
  <1>4. QED
    BY <1>2, <1>3

-----------------------------------------------------------------------------
(***************************************************************************)
(* What a command does, as far as it comes.                                *)
(***************************************************************************)
LEMMA WritesFiles ==
    ASSUME IInv, NEW p \in Threads, request[p].at = "making",
           NEW o, o = request[p].owner, NEW r, r = request[p].run,
           NEW n \in Nat, NEW m \in Nat, Writes(p, n, m)
    PROVE  /\ files' \in [Owners -> [FileNames -> Content]]
           /\ \A x \in Owners \ {o} : files'[x] = files[x]
           /\ \A f \in FileNames : files'[o][f] =
                  IF \E i \in 1..n : Command(p)[i] = f THEN Written(r)
                  ELSE IF \E i \in n+1..m : Command(p)[i] = f THEN Begun(r) ELSE files[o][f]
  <1>1. o \in Owners /\ r \in 0..MaxRuns
    BY CommandOf, TrustAssumption DEF IInv, RequestOK
  <1>2. files \in [Owners -> [FileNames -> Content]]
    BY DEF IInv, TrustTypeOK
  <1>3. Written(r) \in Content /\ Begun(r) \in Content
    BY <1>1 DEF Written, Begun, Content
  <1> DEFINE new == [f \in FileNames |->
                        IF \E i \in 1..n : Command(p)[i] = f THEN Written(r)
                        ELSE IF \E i \in n+1..m : Command(p)[i] = f THEN Begun(r) ELSE files[o][f]]
  <1>4. files' = [files EXCEPT ![o] = new]
    BY DEF Writes
  <1>5. new \in [FileNames -> Content]
    BY <1>1, <1>2, <1>3
  <1> HIDE DEF new
  <1>6. files' \in [Owners -> [FileNames -> Content]] /\ files'[o] = new
    BY <1>1, <1>2, <1>4, <1>5
  <1>7. \A x \in Owners \ {o} : files'[x] = files[x]
    BY <1>1, <1>2, <1>4
  <1>8. QED
    BY <1>6, <1>7 DEF new

\* A command that runs to its end writes its files and no others.
LEMMA WritesAllFiles ==
    ASSUME IInv, NEW p \in Threads, request[p].at = "making",
           NEW o, o = request[p].owner, NEW r, r = request[p].run, WritesAll(p)
    PROVE  /\ files' \in [Owners -> [FileNames -> Content]]
           /\ \A x \in Owners \ {o} : files'[x] = files[x]
           /\ \A f \in FileNames : files'[o][f] =
                  IF \E i \in 1..Len(Command(p)) : Command(p)[i] = f THEN Written(r)
                  ELSE files[o][f]
  <1>1. Len(Command(p)) \in Nat
    BY CommandOf
  <1>2. Writes(p, Len(Command(p)), Len(Command(p)))
    BY DEF WritesAll
  <1>3. /\ files' \in [Owners -> [FileNames -> Content]]
        /\ \A x \in Owners \ {o} : files'[x] = files[x]
        /\ \A f \in FileNames : files'[o][f] =
               IF \E i \in 1..Len(Command(p)) : Command(p)[i] = f THEN Written(r)
               ELSE IF \E i \in Len(Command(p))+1..Len(Command(p)) : Command(p)[i] = f
               THEN Begun(r) ELSE files[o][f]
    BY <1>1, <1>2, WritesFiles
  <1>4. QED
    BY <1>1, <1>3

\* A command that fails leaves an identity without its last file, or in one piece.
LEMMA FailureLeaves ==
    ASSUME IInv, NEW p \in Threads, request[p].at = "making",
           NEW o, o = request[p].owner, NEW r, r = request[p].run,
           NEW n \in 0..Len(Command(p)) - 1, NEW m \in {n, n + 1}, Writes(p, n, m)
    PROVE  Has(o)' => OnePiece(o)'
  <1>1. /\ r \in 1..MaxRuns
        /\ files[o][LastFile(o)] = Absent
        /\ \A f \in Before(o, request[p].step) : files[o][f] = Written(r)
    BY DEF IInv, RequestOK, Has
  <1>2. n \in Nat /\ m \in Nat
    BY CommandOf
  <1>3. /\ o \in Owners
        /\ \A f \in FileNames : files'[o][f] =
               IF \E i \in 1..n : Command(p)[i] = f THEN Written(r)
               ELSE IF \E i \in n+1..m : Command(p)[i] = f THEN Begun(r) ELSE files[o][f]
    BY <1>2, CommandOf, WritesFiles
  <1>4. CASE o = Collector
    <2>1. Command(p) = <<"ca.key", "ca.crt">> /\ n \in {0, 1}
      <3>1. Command(p) = <<"ca.key", "ca.crt">> /\ Len(Command(p)) = 2
        BY <1>4, CommandOf
      <3>2. QED
        BY <3>1
    <2>2. files'[o]["ca.crt"] # Absent => n = 1 /\ m = 2
      BY <1>1, <1>3, <1>4, <2>1 DEF LastFile, FileNames
    <2>3. n = 1 /\ m = 2 => files'[o]["ca.key"] = Written(r) /\ files'[o]["ca.crt"] = Begun(r)
      BY <1>3, <2>1 DEF FileNames
    <2>4. n = 1 /\ m = 2 => From(o, r)'
      BY <1>4, <2>3 DEF From, FilesOf
    <2>5. QED
      BY <1>1, <1>4, <2>2, <2>4 DEF Has, LastFile, OnePiece
  <1>5. CASE o # Collector /\ request[p].step \in {1, 2}
    <2>1. \A i \in 1..Len(Command(p)) : Command(p)[i] # "client.crt"
      BY <1>5, CommandOf
    <2>2. files'[o]["client.crt"] = files[o]["client.crt"]
      BY <1>2, <1>3, <2>1 DEF FileNames
    <2>3. QED
      BY <1>1, <1>5, <2>2 DEF Has, LastFile
  <1>6. CASE o # Collector /\ request[p].step = 3
    <2>1. Command(p) = <<"client.crt">> /\ n = 0
      <3>1. Command(p) = <<"client.crt">> /\ Len(Command(p)) = 1
        BY <1>6, CommandOf
      <3>2. QED
        BY <3>1
    <2>2. \A f \in FileNames \ {"client.crt"} : files'[o][f] = files[o][f]
      BY <1>3, <2>1
    <2>3. \A f \in FileNames \ {"client.crt"} : files[o][f] = Written(r)
      BY <1>1, <1>6 DEF Before, FilesOf, FileNames
    <2>4. files'[o]["client.crt"] \in {Absent, Begun(r)}
      BY <1>1, <1>3, <1>6, <2>1 DEF LastFile, FileNames
    <2>5. files'[o]["client.crt"] = Begun(r) => From(o, r)'
      BY <1>6, <2>2, <2>3 DEF From, FilesOf
    <2>6. QED
      BY <1>1, <1>6, <2>4, <2>5 DEF Has, LastFile, OnePiece
  <1>7. QED
    BY <1>4, <1>5, <1>6, CommandOf

\* A command that ends the making of an identity leaves all of its files.
LEMMA LastCommandLeaves ==
    ASSUME IInv, NEW p \in Threads, request[p].at = "making",
           NEW o, o = request[p].owner, NEW r, r = request[p].run,
           IsLast(p), WritesAll(p)
    PROVE  Has(o)' /\ OnePiece(o)'
  <1>1. /\ r \in 1..MaxRuns
        /\ \A f \in Before(o, request[p].step) : files[o][f] = Written(r)
    BY DEF IInv, RequestOK
  <1>3. /\ o \in Owners
        /\ \A f \in FileNames : files'[o][f] =
               IF \E i \in 1..Len(Command(p)) : Command(p)[i] = f THEN Written(r)
               ELSE files[o][f]
    BY CommandOf, WritesAllFiles
  <1>4. \A f \in FilesOf(o) : files'[o][f] = Written(r)
    <2>1. CASE o = Collector
      <3>1. Command(p) = <<"ca.key", "ca.crt">>
        BY <2>1, CommandOf
      <3>2. QED
        BY <1>3, <2>1, <3>1 DEF FilesOf, FileNames
    <2>2. CASE o # Collector
      <3>1. Command(p) = <<"client.crt">> /\ request[p].step = 3
        BY <2>2, CommandOf
      <3>2. \A f \in FileNames \ {"client.crt"} : files[o][f] = Written(r)
        BY <1>1, <2>2, <3>1 DEF Before, FilesOf, FileNames
      <3>3. QED
        BY <1>3, <2>2, <3>1, <3>2 DEF FilesOf, FileNames
    <2>3. QED
      BY <2>1, <2>2
  <1>5. From(o, r)'
    BY <1>4 DEF From
  <1>6. Written(r) # Absent
    BY DEF Written, Absent
  <1>7. QED
    BY <1>1, <1>3, <1>4, <1>5, <1>6, OwnerFiles DEF Has, OnePiece

\* A command that is followed by another leaves the last file to be written.
LEMMA CommandLeaves ==
    ASSUME IInv, NEW p \in Threads, request[p].at = "making",
           NEW o, o = request[p].owner, NEW r, r = request[p].run,
           ~IsLast(p), WritesAll(p)
    PROVE  /\ o # Collector
           /\ request[p].step \in {1, 2}
           /\ files'[o][LastFile(o)] = files[o][LastFile(o)]
           /\ \A f \in Before(o, request[p].step + 1) : files'[o][f] = Written(r)
  <1>1. \A f \in Before(o, request[p].step) : files[o][f] = Written(r)
    BY DEF IInv, RequestOK
  <1>2. o # Collector /\ request[p].step \in {1, 2}
    BY CommandOf
  <1>4. \A f \in FileNames : files'[o][f] =
            IF \E i \in 1..Len(Command(p)) : Command(p)[i] = f THEN Written(r)
            ELSE files[o][f]
    BY WritesAllFiles
  <1>5. CASE request[p].step = 1
    <2>1. Command(p) = <<"ca.key", "ca.crt">> /\ Len(Command(p)) = 2
      BY <1>2, <1>5, CommandOf
    <2>2. QED
      BY <1>2, <1>4, <1>5, <2>1 DEF Before, FilesOf, FileNames, LastFile
  <1>6. CASE request[p].step = 2
    <2>1. Command(p) = <<"client.key">> /\ Len(Command(p)) = 1
      BY <1>2, <1>6, CommandOf
    <2>2. QED
      BY <1>1, <1>2, <1>4, <1>6, <2>1 DEF Before, FilesOf, FileNames, LastFile
  <1>7. QED
    BY <1>2, <1>5, <1>6

-----------------------------------------------------------------------------
(***************************************************************************)
(* A step that writes to one identity leaves the others, and what rows and *)
(* requests rely on, as they were: it was not complete before.             *)
(***************************************************************************)
FilesAt(o) ==
    /\ files' \in [Owners -> [FileNames -> Content]]
    /\ \A x \in Owners \ {o} : files'[x] = files[x]

\* The steps of a thread that write, and where.
Working(p) == Runs(p) \/ Completes(p) \/ Fails(p)

LEMMA WorkIsAt ==
    ASSUME IInv, NEW p \in Threads, Working(p), NEW o, o = request[p].owner
    PROVE  /\ request[p].at = "making"
           /\ o \in Owners
           /\ ~Has(o)
           /\ lock[o] = p
           /\ FilesAt(o)
           /\ UNCHANGED <<rows, runs>>
           /\ \A q \in Threads \ {p} : request'[q] = request[q]
  <1>1. request[p].at = "making"
    BY DEF Working, Runs, Completes, Fails
  <1>2. o \in Owners
    BY <1>1, CommandOf
  <1>3. ~Has(o)
    BY <1>1 DEF IInv, RequestOK
  <1>4. lock[o] = p
    BY <1>1, <1>2 DEF IInv, TrustTypeOK, LockOK
  <1>5. FilesAt(o)
    <2>1. CASE WritesAll(p)
      BY <1>1, <2>1, WritesAllFiles DEF FilesAt
    <2>2. CASE Fails(p)
      <3>1. PICK n \in 0..Len(Command(p)) - 1 : \E m \in {n, n + 1} : Writes(p, n, m)
        BY <2>2 DEF Fails
      <3>2. PICK m \in {n, n + 1} : Writes(p, n, m)
        BY <3>1
      <3>3. n \in Nat /\ m \in Nat
        BY <1>1, CommandOf
      <3>4. QED
        BY <1>1, <3>2, <3>3, WritesFiles DEF FilesAt
    <2>3. QED
      BY <2>1, <2>2 DEF Working, Runs, Completes
  <1>6. /\ UNCHANGED <<rows, runs>>
        /\ \A q \in Threads \ {p} : request'[q] = request[q]
    BY DEF Working, Runs, Completes, Fails, Goes, IInv, TrustTypeOK
  <1>7. QED
    BY <1>1, <1>2, <1>3, <1>4, <1>5, <1>6

LEMMA WorkKeeps ==
    ASSUME IInv, NEW p \in Threads, Working(p)
    PROVE  /\ \A o \in Owners : Has(o) => files'[o] = files[o] /\ Has(o)'
           /\ \A s \in rows' : Has(s)' /\ Has(Collector)'
           /\ \A q \in Threads \ {p} : RequestOK(request[q])'
  <1> DEFINE w == request[p].owner
  <1>1. /\ w \in Owners /\ ~Has(w) /\ lock[w] = p /\ FilesAt(w) /\ rows' = rows
        /\ \A q \in Threads \ {p} : request'[q] = request[q]
    BY WorkIsAt
  <1>2. \A o \in Owners : Has(o) => files'[o] = files[o] /\ Has(o)'
    BY <1>1 DEF FilesAt, Has
  <1>3. \A s \in rows' : Has(s)' /\ Has(Collector)'
    BY <1>1, <1>2 DEF IInv, TrustTypeOK, Owners
  <1>4. ASSUME NEW q \in Threads \ {p} PROVE RequestOK(request[q])'
    <2>1. RequestOK(request[q]) /\ request'[q] = request[q]
      BY <1>1 DEF IInv
    <2>2. Has(Collector) => Has(Collector)'
      BY <1>2 DEF Owners
    <2>3. request[q].at = "issued" => Has(request[q].server)'
      BY <1>2, <2>1 DEF RequestOK, Owners
    <2>4. ASSUME request[q].at = "making"
          PROVE  files'[request[q].owner] = files[request[q].owner]
      <3>1. request[q].owner \in Owners
        BY <2>1, <2>4 DEF RequestOK, Owners
      <3>2. lock[request[q].owner] = q
        BY <2>4, <3>1 DEF IInv, TrustTypeOK, LockOK
      <3>3. QED
        BY <1>1, <3>1, <3>2 DEF FilesAt
    <2>5. QED
      BY <2>1, <2>2, <2>3, <2>4 DEF RequestOK, Has
  <1>5. QED
    BY <1>2, <1>3, <1>4
-----------------------------------------------------------------------------
(***************************************************************************)
(* Types, and whose lock it is.                                            *)
(***************************************************************************)
LEMMA RequestTypes ==
    ASSUME NEW s \in Servers, NEW o \in Owners, NEW k \in 0..3, NEW r \in 0..MaxRuns
    PROVE  /\ Idle \in Request
           /\ Wanting(s, o) \in Request
           /\ Making(s, o, k, r) \in Request
           /\ Issued(s) \in Request
           /\ After(s, o) \in Request /\ After(s, o).at # "making"
  <1>1. 0 \in 0..MaxRuns
    BY TrustAssumption
  <1>2. Idle \in Request
    BY <1>1 DEF Idle, Request
  <1>3. s \in Owners
    BY DEF Owners
  <1>4. \A x \in Owners : Wanting(s, x) \in Request /\ Wanting(s, x).at = "wanting"
    BY <1>1 DEF Wanting, Request
  <1>5. Issued(s) \in Request /\ Issued(s).at = "issued"
    BY <1>1 DEF Issued, Request
  <1>6. QED
    BY <1>2, <1>3, <1>4, <1>5 DEF Making, After, Request

\* A thread moves without a lock changing hands.
LEMMA MoveType ==
    ASSUME IInv, NEW p \in Threads, NEW state \in Request, Goes(p, state), lock' = lock,
           \/ request[p].at # "making" /\ state.at # "making"
           \/ request[p].at = "making" /\ state.at = "making" /\ state.owner = request[p].owner
    PROVE  request' \in [Threads -> Request] /\ LockOK'
  <1>1. request' \in [Threads -> Request]
    BY DEF Goes, IInv, TrustTypeOK
  <1>2. request'[p] = state /\ \A q \in Threads \ {p} : request'[q] = request[q]
    BY DEF Goes, IInv, TrustTypeOK
  <1>3. QED
    BY <1>1, <1>2 DEF LockOK, IInv, TrustTypeOK

LEMMA TakeType ==
    ASSUME IInv, NEW p \in Threads, NEW o \in Owners, NEW state \in Request,
           Goes(p, state), request[p].at # "making", state.at = "making", state.owner = o,
           lock[o] = None, lock' = [lock EXCEPT ![o] = p]
    PROVE  /\ lock' \in [Owners -> Threads \cup {None}]
           /\ request' \in [Threads -> Request]
           /\ LockOK'
  <1>1. request' \in [Threads -> Request] /\ lock' \in [Owners -> Threads \cup {None}]
    BY DEF Goes, IInv, TrustTypeOK
  <1>2. request'[p] = state /\ \A q \in Threads \ {p} : request'[q] = request[q]
    BY DEF Goes, IInv, TrustTypeOK
  <1>3. lock'[o] = p /\ \A x \in Owners \ {o} : lock'[x] = lock[x]
    BY DEF IInv, TrustTypeOK
  <1>4. QED
    BY <1>1, <1>2, <1>3, TrustAssumption DEF LockOK, IInv, TrustTypeOK

LEMMA ReleaseType ==
    ASSUME IInv, NEW p \in Threads, NEW state \in Request, request[p].at = "making",
           Goes(p, state), state.at # "making", Releases(p)
    PROVE  /\ lock' \in [Owners -> Threads \cup {None}]
           /\ request' \in [Threads -> Request]
           /\ LockOK'
  <1> DEFINE o == request[p].owner
  <1>1. o \in Owners /\ lock[o] = p
    BY CommandOf DEF IInv, TrustTypeOK, LockOK
  <1>2. request' \in [Threads -> Request] /\ lock' \in [Owners -> Threads \cup {None}]
    BY <1>1 DEF Goes, Releases, IInv, TrustTypeOK
  <1>3. request'[p] = state /\ \A q \in Threads \ {p} : request'[q] = request[q]
    BY DEF Goes, IInv, TrustTypeOK
  <1>4. lock'[o] = None /\ \A x \in Owners \ {o} : lock'[x] = lock[x]
    BY <1>1 DEF Releases, IInv, TrustTypeOK
  <1>5. \A q \in Threads : q # None
    BY TrustAssumption
  <1>6. QED
    BY <1>1, <1>2, <1>3, <1>4, <1>5 DEF LockOK, IInv, TrustTypeOK

-----------------------------------------------------------------------------
(***************************************************************************)
(* The steps that write no file.                                           *)
(***************************************************************************)
LEMMA QuietStep ==
    ASSUME IInv, NEW p \in Threads, files' = files, rows' = rows,
           NEW state, Goes(p, state), RequestOK(state)', TrustTypeOK'
    PROVE  IInv'
  <1>1. request'[p] = state /\ \A q \in Threads \ {p} : request'[q] = request[q]
    BY DEF Goes, IInv, TrustTypeOK
  <1>2. \A q \in Threads : RequestOK(request[q])'
    BY <1>1 DEF IInv, RequestOK, Has
  <1>3. \A s \in rows' : Has(s)' /\ Has(Collector)'
    BY DEF IInv, Has
  <1>4. \A o \in Owners : Has(o)' => OnePiece(o)'
    BY DEF IInv, Has, OnePiece, From
  <1>5. QED
    BY <1>2, <1>3, <1>4 DEF IInv

LEMMA AsksStep ==
    ASSUME IInv, NEW p \in Threads, NEW s \in Servers, Asks(p, s)
    PROVE  IInv'
  <1>1. Wanting(s, Collector) \in Request /\ Wanting(s, Collector).at = "wanting"
    BY TrustAssumption DEF Wanting, Owners, Request
  <1>2. request' \in [Threads -> Request] /\ LockOK'
    BY <1>1, MoveType DEF Asks
  <1>3. TrustTypeOK'
    BY <1>2 DEF Asks, IInv, TrustTypeOK
  <1>4. RequestOK(Wanting(s, Collector))'
    BY DEF Wanting, RequestOK
  <1>5. QED
    BY <1>3, <1>4, QuietStep DEF Asks

\* A request goes on once the identity it needs is there.
LEMMA AfterOK ==
    ASSUME NEW s \in Servers, NEW o \in {Collector, s}, Has(Collector), Has(o)
    PROVE  RequestOK(After(s, o))
  BY DEF After, Wanting, Issued, RequestOK

LEMMA FindsStep ==
    ASSUME IInv, NEW p \in Threads, Finds(p)
    PROVE  IInv'
  <1> DEFINE s == request[p].server
             o == request[p].owner
  <1>1. /\ request[p].at = "wanting"
        /\ s \in Servers /\ o \in {Collector, s} /\ o \in Owners
        /\ o # Collector => Has(Collector)
    BY DEF Finds, IInv, RequestOK, Owners
  <1>2. Has(o)
    BY <1>1, CompleteIsHas DEF Finds
  <1>3. 0 \in 0..3 /\ 0 \in 0..MaxRuns
    BY TrustAssumption
  <1>4. After(s, o) \in Request /\ After(s, o).at # "making"
    BY <1>1, <1>3, RequestTypes
  <1>5. request' \in [Threads -> Request] /\ LockOK'
    BY <1>1, <1>4, MoveType DEF Finds
  <1>6. TrustTypeOK'
    BY <1>5 DEF Finds, IInv, TrustTypeOK
  <1>7. RequestOK(After(s, o))
    BY <1>1, <1>2, AfterOK
  <1>8. \A state : RequestOK(state) => RequestOK(state)'
    BY DEF Finds, RequestOK, Has
  <1>9. PICK state : state = After(s, o)
    OBVIOUS
  <1>10. QED
    BY <1>6, <1>7, <1>8, <1>9, QuietStep DEF Finds

LEMMA BeginsStep ==
    ASSUME IInv, NEW p \in Threads, Begins(p)
    PROVE  IInv'
  <1>1. PICK s \in Servers, o \in Owners : s = request[p].server /\ o = request[p].owner
    BY DEF Begins, IInv, RequestOK, Owners
  <1>2. /\ o \in {Collector, s}
        /\ o # Collector => Has(Collector)
        /\ lock[o] = None /\ request[p].at = "wanting"
        /\ ~Has(o)
    BY <1>1, CompleteIsHas DEF Begins, IInv, RequestOK
  <1>3. PICK r \in 1..MaxRuns : r = runs + 1
    BY TrustAssumption DEF Begins, IInv, TrustTypeOK
  <1>4. Making(s, o, 1, r) \in Request
    BY <1>3, RequestTypes
  <1>5. Goes(p, Making(s, o, 1, r)) /\ lock' = [lock EXCEPT ![o] = p]
    BY <1>1, <1>3 DEF Begins
  <1>6. Making(s, o, 1, r).at = "making" /\ Making(s, o, 1, r).owner = o
    BY DEF Making
  <1>7. /\ lock' \in [Owners -> Threads \cup {None}]
        /\ request' \in [Threads -> Request]
        /\ LockOK'
    BY <1>2, <1>4, <1>5, <1>6, TakeType
  <1>8. TrustTypeOK'
    BY <1>3, <1>7 DEF Begins, IInv, TrustTypeOK
  <1>9. RequestOK(Making(s, o, 1, r))'
    BY <1>2 DEF Begins, Making, RequestOK, Steps, Before, Has
  <1>10. QED
    BY <1>5, <1>8, <1>9, QuietStep DEF Begins

LEMMA EndsStep ==
    ASSUME IInv, NEW p \in Threads, Ends(p)
    PROVE  IInv'
  <1>1. Idle \in Request /\ Idle.at = "idle"
    BY TrustAssumption DEF Idle, Request
  <1>2. request' \in [Threads -> Request] /\ LockOK'
    BY <1>1, MoveType DEF Ends
  <1>3. TrustTypeOK'
    BY <1>2 DEF Ends, IInv, TrustTypeOK
  <1>4. RequestOK(Idle)'
    BY DEF Idle, RequestOK
  <1>5. QED
    BY <1>3, <1>4, QuietStep DEF Ends

LEMMA StagesStep ==
    ASSUME IInv, NEW p \in Threads, Stages(p)
    PROVE  IInv'
  <1>1. Idle \in Request /\ Idle.at = "idle"
    BY TrustAssumption DEF Idle, Request
  <1>2. request' \in [Threads -> Request] /\ LockOK'
    BY <1>1, MoveType DEF Stages
  <1>3. request[p].server \in Servers /\ Has(Collector) /\ Has(request[p].server)
    BY DEF Stages, IInv, RequestOK
  <1>4. TrustTypeOK'
    BY <1>2, <1>3 DEF Stages, IInv, TrustTypeOK
  <1>5. /\ request'[p] = Idle /\ \A q \in Threads \ {p} : request'[q] = request[q]
        /\ files' = files
    BY DEF Stages, Goes, IInv, TrustTypeOK
  <1>6. \A q \in Threads : RequestOK(request[q])'
    BY <1>1, <1>5 DEF IInv, RequestOK, Has
  <1>7. \A s \in rows' : Has(s)' /\ Has(Collector)'
    BY <1>3, <1>5 DEF Stages, IInv, Has
  <1>8. \A o \in Owners : Has(o)' => OnePiece(o)'
    BY <1>5 DEF IInv, Has, OnePiece, From
  <1>9. QED
    BY <1>4, <1>6, <1>7, <1>8 DEF IInv

LEMMA ForgetsStep ==
    ASSUME IInv, NEW S, Forgets(S)
    PROVE  IInv'
  <1>1. TrustTypeOK'
    BY DEF Forgets, IInv, TrustTypeOK, LockOK
  <1>2. QED
    BY <1>1 DEF Forgets, IInv, RequestOK, Has, OnePiece, From
-----------------------------------------------------------------------------
(***************************************************************************)
(* The steps that write.                                                   *)
(***************************************************************************)
LEMMA WorkStep ==
    ASSUME IInv, NEW p \in Threads, Working(p), NEW o, o = request[p].owner,
           NEW state, Goes(p, state), RequestOK(state)',
           lock' \in [Owners -> Threads \cup {None}],
           request' \in [Threads -> Request], LockOK',
           Has(o)' => OnePiece(o)'
    PROVE  IInv'
  <1>1. o \in Owners /\ FilesAt(o) /\ UNCHANGED <<rows, runs>>
    BY WorkIsAt
  <1>2. TrustTypeOK'
    BY <1>1 DEF FilesAt, IInv, TrustTypeOK
  <1>3. \A q \in Threads : RequestOK(request[q])'
    <2>1. request'[p] = state
      BY DEF Goes, IInv, TrustTypeOK
    <2>2. RequestOK(request[p])'
      BY <2>1 DEF RequestOK
    <2>3. QED
      BY <2>2, WorkKeeps
  <1>4. \A s \in rows' : Has(s)' /\ Has(Collector)'
    BY WorkKeeps
  <1>5. \A x \in Owners : Has(x)' => OnePiece(x)'
    <2>1. ASSUME NEW x \in Owners \ {o}, Has(x)' PROVE OnePiece(x)'
      <3>1. files'[x] = files[x]
        BY <1>1 DEF FilesAt
      <3>2. Has(x)
        BY <2>1, <3>1 DEF Has
      <3>3. QED
        BY <3>1, <3>2 DEF IInv, OnePiece, From
    <2>2. QED
      BY <2>1
  <1>6. QED
    BY <1>2, <1>3, <1>4, <1>5 DEF IInv

LEMMA RunsStep ==
    ASSUME IInv, NEW p \in Threads, Runs(p)
    PROVE  IInv'
  <1>1. PICK o, r, k, s :
            o = request[p].owner /\ r = request[p].run /\ k = request[p].step
            /\ s = request[p].server
    OBVIOUS
  <1>2. request[p].at = "making" /\ ~IsLast(p) /\ WritesAll(p)
    BY DEF Runs
  <1>3. /\ o # Collector /\ k \in {1, 2}
        /\ files'[o][LastFile(o)] = files[o][LastFile(o)]
        /\ \A f \in Before(o, k + 1) : files'[o][f] = Written(r)
    BY <1>1, <1>2, CommandLeaves
  <1>4. PICK state : state = [request[p] EXCEPT !.step = request[p].step + 1]
    OBVIOUS
  <1>5. state = [at |-> "making", server |-> s, owner |-> o, step |-> k + 1, run |-> r]
    BY <1>1, <1>2, <1>4 DEF IInv, TrustTypeOK, Request
  <1>6. Goes(p, state)
    BY <1>4 DEF Runs
  <1>7. /\ s \in Servers /\ o \in {Collector, s} /\ r \in 1..MaxRuns
        /\ Has(Collector) /\ ~Has(o)
    BY <1>1, <1>2, <1>3 DEF IInv, RequestOK
  <1>8. state \in Request
    BY <1>3, <1>5, <1>7, RequestTypes DEF Making, Owners
  <1>9. request' \in [Threads -> Request] /\ LockOK'
    BY <1>1, <1>2, <1>5, <1>6, <1>8, MoveType DEF Runs
  <1>10. lock' \in [Owners -> Threads \cup {None}]
    BY DEF Runs, IInv, TrustTypeOK
  <1>11. Has(Collector)'
    BY <1>7, WorkKeeps DEF Working, Owners
  <1>12. ~Has(o)'
    BY <1>3, <1>7 DEF Has
  <1>13. RequestOK(state)'
    BY <1>3, <1>5, <1>7, <1>11, <1>12 DEF RequestOK, Steps
  <1>14. QED
    BY <1>1, <1>6, <1>9, <1>10, <1>12, <1>13, WorkStep DEF Working

LEMMA CompletesStep ==
    ASSUME IInv, NEW p \in Threads, Completes(p)
    PROVE  IInv'
  <1>1. PICK o, r, s :
            o = request[p].owner /\ r = request[p].run /\ s = request[p].server
    OBVIOUS
  <1>2. request[p].at = "making" /\ IsLast(p) /\ WritesAll(p)
    BY DEF Completes
  <1>3. Has(o)' /\ OnePiece(o)'
    BY <1>1, <1>2, LastCommandLeaves
  <1>4. s \in Servers /\ o \in {Collector, s} /\ (o # Collector => Has(Collector))
    BY <1>1, <1>2 DEF IInv, RequestOK
  <1>5. PICK state : state = After(s, o)
    OBVIOUS
  <1>6. state \in Request /\ state.at # "making"
    <2>1. 0 \in 0..3 /\ 0 \in 0..MaxRuns /\ o \in Owners
      BY <1>4, TrustAssumption DEF Owners
    <2>2. QED
      BY <1>4, <1>5, <2>1, RequestTypes
  <1>7. Goes(p, state) /\ Releases(p)
    BY <1>1, <1>5 DEF Completes
  <1>8. /\ lock' \in [Owners -> Threads \cup {None}]
        /\ request' \in [Threads -> Request] /\ LockOK'
    BY <1>2, <1>6, <1>7, ReleaseType
  <1>9. Has(Collector)'
    BY <1>3, <1>4, WorkKeeps DEF Working, Owners
  <1>10. RequestOK(state)'
    BY <1>3, <1>4, <1>5, <1>9 DEF After, Wanting, Issued, RequestOK
  <1>11. QED
    BY <1>1, <1>3, <1>7, <1>8, <1>10, WorkStep DEF Working

LEMMA FailsStep ==
    ASSUME IInv, NEW p \in Threads, Fails(p)
    PROVE  IInv'
  <1>1. PICK o, r : o = request[p].owner /\ r = request[p].run
    OBVIOUS
  <1>2. request[p].at = "making" /\ Goes(p, Idle) /\ Releases(p)
    BY DEF Fails
  <1>3. PICK n \in 0..Len(Command(p)) - 1 : \E m \in {n, n + 1} : Writes(p, n, m)
    BY DEF Fails
  <1>4. PICK m \in {n, n + 1} : Writes(p, n, m)
    BY <1>3
  <1>5. Has(o)' => OnePiece(o)'
    BY <1>1, <1>2, <1>4, FailureLeaves
  <1>6. Idle \in Request /\ Idle.at = "idle"
    BY TrustAssumption DEF Idle, Request
  <1>7. /\ lock' \in [Owners -> Threads \cup {None}]
        /\ request' \in [Threads -> Request] /\ LockOK'
    BY <1>2, <1>6, ReleaseType
  <1>8. RequestOK(Idle)'
    BY DEF Idle, RequestOK
  <1>9. QED
    BY <1>1, <1>2, <1>5, <1>7, <1>8, WorkStep DEF Working

-----------------------------------------------------------------------------
THEOREM InvInit == TrustInit => IInv
  <1> SUFFICES ASSUME TrustInit PROVE IInv
    OBVIOUS
  <1>1. Absent \in Content
    BY TrustAssumption DEF Absent, Content
  <1>2. Idle \in Request /\ Idle.at = "idle"
    BY TrustAssumption DEF Idle, Request
  <1>3. \A o \in Owners : files[o][LastFile(o)] = Absent
    BY DEF TrustInit, LastFile, FileNames
  <1>4. TrustTypeOK
    <2>1. LockOK
      BY <1>2, TrustAssumption DEF TrustInit, LockOK
    <2>2. QED
      BY <1>1, <1>2, <2>1, TrustAssumption DEF TrustInit, TrustTypeOK
  <1>5. \A p \in Threads : RequestOK(request[p])
    BY <1>2 DEF TrustInit, RequestOK
  <1>6. QED
    BY <1>3, <1>4, <1>5 DEF TrustInit, IInv, Has

THEOREM InvStep == IInv /\ [TrustNext]_trustVars => IInv'
  <1> SUFFICES ASSUME IInv, [TrustNext]_trustVars
               PROVE  IInv'
    OBVIOUS
  <1>1. CASE UNCHANGED trustVars
    BY <1>1 DEF trustVars, IInv, TrustTypeOK, LockOK, RequestOK, Has, OnePiece, From
  <1>2. CASE \E p \in Threads, s \in Servers : Asks(p, s)
    BY <1>2, AsksStep
  <1>3. CASE \E p \in Threads : Finds(p) \/ Begins(p) \/ Runs(p) \/ Completes(p)
    BY <1>3, FindsStep, BeginsStep, RunsStep, CompletesStep
  <1>4. CASE \E p \in Threads : Fails(p) \/ Stages(p) \/ Ends(p)
    BY <1>4, FailsStep, StagesStep, EndsStep
  <1>5. CASE \E S \in SUBSET rows : Forgets(S)
    BY <1>5, ForgetsStep
  <1>6. QED
    BY <1>1, <1>2, <1>3, <1>4, <1>5 DEF TrustNext

\* An identity is one behind a row only if it is complete, and a step that writes
\* files writes those of an identity that is not.
LEMMA StandsStep ==
    ASSUME IInv, [TrustNext]_trustVars
    PROVE  \A s \in rows : files'[s] = files[s] /\ files'[Collector] = files[Collector]
  <1> SUFFICES ASSUME NEW s \in rows
               PROVE  files'[s] = files[s] /\ files'[Collector] = files[Collector]
    OBVIOUS
  <1>1. s \in Owners /\ Collector \in Owners /\ Has(s) /\ Has(Collector)
    BY DEF IInv, TrustTypeOK, Owners
  <1>2. CASE \E p \in Threads : Working(p)
    BY <1>1, <1>2, WorkKeeps
  <1>3. CASE UNCHANGED files
    BY <1>3
  <1>4. QED
    BY <1>2, <1>3 DEF TrustNext, Working, trustVars, Asks, Finds, Begins, Stages, Ends, Forgets

\* Types, and that whoever writes in a directory holds its lock.
THEOREM TypeCorrect == TrustSpec => []TrustTypeOK
  <1>1. IInv => TrustTypeOK
    BY DEF IInv
  <1>2. QED
    BY InvInit, InvStep, <1>1, PTL DEF TrustSpec

\* Once a row names it an identity stays what it is, and the collector CA too.
THEOREM IdentitiesStand == TrustSpec => TrustStands
  <1>1. IInv /\ [TrustNext]_trustVars =>
            [\A s \in rows : files'[s] = files[s] /\ files'[Collector] = files[Collector]]_trustVars
    BY StandsStep
  <1>2. QED
    BY InvInit, InvStep, <1>1, PTL DEF TrustSpec, TrustStands

\* The files of an identity behind a row were written by one making of it.
THEOREM IdentitiesAreOnePiece == TrustSpec => []IdentityIsOnePiece
  <1>1. ASSUME IInv PROVE IdentityIsOnePiece
    BY <1>1 DEF IInv, TrustTypeOK, Owners, OnePiece, From, IdentityIsOnePiece
  <1>2. QED
    BY InvInit, InvStep, <1>1, PTL DEF TrustSpec

-----------------------------------------------------------------------------
\* The servers a copy refers to, and the owners whose files they need.
Refers(copy) == copy.rows \cup copy.config
Needs(copy) == {o \in Owners : \E s \in Refers(copy) : o \in {s, Collector}}

Sound(S) == \A s \in S : Has(s) /\ Has(Collector)

\* What an archive or a target holds is sound, and is what the dashboard has.
Good(copy) ==
    /\ Sound(Refers(copy))
    /\ \A o \in Needs(copy) : copy.files[o] = files[o]

\* The collector CA is no client.
NoClientOfCollector ==
    \A f \in FileNames \ FilesOf(Collector) : files[Collector][f] = Absent

\* The directory of an owner, or one it may yet be found in, is still to be listed.
ToList(o) ==
    \/ o \in backup.dirs
    \/ o \in Servers /\ (backup.clients \/ Collector \in backup.dirs)

\* What is in the copy of an owner is what it has, but for what is listed.
CopiedOK(o) ==
    \A f \in FileNames : <<o, f>> \in backup.listed \/ backup.copy.files[o][f] = files[o][f]

\* The owners that are still to come have nothing in the copy, and those that have
\* been or are being copied have in it what they have.
CopyingOK ==
    /\ backup.part \in 1..2 => backup.dirs = {Collector} /\ ~backup.clients /\ backup.listed = {}
    /\ backup.part \in 4..5 => backup.dirs = {} /\ ~backup.clients /\ backup.listed = {}
    /\ Collector \in backup.dirs => backup.dirs = {Collector}
    /\ backup.clients => backup.dirs = {}
    /\ \A o \in Owners : ToList(o) =>
           /\ backup.copy.files[o] = NoFiles
           /\ \A f \in FileNames : <<o, f>> \notin backup.listed
    /\ \A o \in Needs(backup.copy) : ToList(o) \/ CopiedOK(o)

BInv ==
    /\ TypeOK
    /\ IInv
    /\ NoClientOfCollector
    /\ Sound(config)
    /\ Sound(Refers(backup.copy))
    /\ CopyingOK
    /\ archive.state = "whole" => Good(archive.copy)
    /\ target.state = "validated" => Good(target.copy)

-----------------------------------------------------------------------------
(***************************************************************************)
(* The steps of the trust files.                                           *)
(***************************************************************************)
LEMMA CompleteStands ==
    ASSUME IInv, [TrustNext]_trustVars
    PROVE  \A o \in Owners : Has(o) => files'[o] = files[o] /\ Has(o)'
  <1>1. CASE \E p \in Threads : Working(p)
    BY <1>1, WorkKeeps
  <1>2. CASE UNCHANGED files
    BY <1>2 DEF Has
  <1>3. QED
    BY <1>1, <1>2 DEF TrustNext, Working, trustVars, Asks, Finds, Begins, Stages, Ends, Forgets

LEMMA CollectorStep ==
    ASSUME IInv, NoClientOfCollector, [TrustNext]_trustVars
    PROVE  NoClientOfCollector'
  <1>1. CASE UNCHANGED files
    BY <1>1 DEF NoClientOfCollector
  <1>2. ASSUME NEW p \in Threads, Working(p)
        PROVE  NoClientOfCollector'
    <2>1. request[p].at = "making"
      BY <1>2, WorkIsAt
    <2>2. CASE request[p].owner # Collector
      <3>1. Collector \in Owners /\ FilesAt(request[p].owner)
        BY <1>2, WorkIsAt DEF Owners
      <3>2. QED
        BY <2>2, <3>1 DEF FilesAt, NoClientOfCollector
    <2>3. CASE request[p].owner = Collector
      <3>1. Command(p) = <<"ca.key", "ca.crt">> /\ Len(Command(p)) = 2
        BY <2>1, <2>3, CommandOf
      <3>2. PICK n \in 0..2, m \in 0..2 : Writes(p, n, m)
        <4>1. CASE Fails(p)
          BY <3>1, <4>1 DEF Fails
        <4>2. CASE WritesAll(p)
          BY <3>1, <4>2 DEF WritesAll
        <4>3. QED
          BY <1>2, <4>1, <4>2 DEF Working, Runs, Completes
      <3>3. \A f \in FileNames \ FilesOf(Collector) : \A i \in 1..2 : Command(p)[i] # f
        BY <3>1 DEF FileNames, FilesOf
      <3>4. n \in Nat /\ m \in Nat
        OBVIOUS
      <3>5. \A f \in FileNames : files'[Collector][f] =
                IF \E i \in 1..n : Command(p)[i] = f THEN Written(request[p].run)
                ELSE IF \E i \in n+1..m : Command(p)[i] = f THEN Begun(request[p].run)
                ELSE files[Collector][f]
        BY <2>1, <2>3, <3>2, <3>4, WritesFiles
      <3>6. \A f \in FileNames \ FilesOf(Collector) : files'[Collector][f] = files[Collector][f]
        BY <3>2, <3>3, <3>5
      <3>7. QED
        BY <3>6 DEF NoClientOfCollector
    <2>4. QED
      BY <2>2, <2>3
  <1>3. UNCHANGED files \/ \E p \in Threads : Working(p)
    BY DEF TrustNext, Working, trustVars, Asks, Finds, Begins, Stages, Ends, Forgets
  <1>4. QED
    BY <1>1, <1>2, <1>3

\* What refers to complete identities does so for good, and a copy that is like
\* the identities it needs stays so.
LEMMA SoundStands ==
    ASSUME IInv, [TrustNext]_trustVars, NEW S \in SUBSET Servers, Sound(S)
    PROVE  Sound(S)'
  BY CompleteStands DEF Sound, Owners

LEMMA GoodStands ==
    ASSUME IInv, [TrustNext]_trustVars, NEW copy \in Copy, Good(copy)
    PROVE  Good(copy)'
  <1>1. Refers(copy) \in SUBSET Servers
    BY DEF Refers, Copy
  <1>2. Sound(Refers(copy))'
    BY <1>1, SoundStands DEF Good, Refers
  <1>3. \A o \in Needs(copy) : Has(o)
    BY DEF Good, Needs, Sound
  <1>4. \A o \in Needs(copy) : copy.files[o] = files'[o]
    BY <1>3, CompleteStands DEF Good, Needs
  <1>5. QED
    BY <1>2, <1>4 DEF Good, Refers, Needs

LEMMA TrustStep ==
    ASSUME BInv, [TrustNext]_trustVars, UNCHANGED <<config, backup, archive, target>>
    PROVE  BInv'
  <1>1. IInv' /\ NoClientOfCollector'
    BY InvStep, CollectorStep DEF BInv
  <1>2. TypeOK'
    BY <1>1 DEF BInv, TypeOK, IInv
  <1>3. PICK c, a, t : c = backup.copy /\ a = archive.copy /\ t = target.copy
    OBVIOUS
  <1>4. /\ c \in Copy /\ a \in Copy /\ t \in Copy
        /\ backup'.copy = c /\ archive'.copy = a /\ target'.copy = t
    BY <1>3 DEF BInv, TypeOK, Backing, Archive, Target
  <1>5. PICK S : S = config
    OBVIOUS
  <1>6. Sound(config)'
    BY <1>5, SoundStands DEF BInv, TypeOK, Sound
  <1>7. PICK R : R = Refers(c)
    OBVIOUS
  <1>8. R \in SUBSET Servers /\ Sound(R)
    BY <1>3, <1>4, <1>7 DEF Refers, Copy, BInv
  <1>9. Sound(Refers(backup.copy))'
    <2>1. Sound(R)'
      BY <1>8, SoundStands DEF BInv
    <2>2. QED
      BY <1>4, <1>7, <2>1 DEF Sound, Refers
  <1>10. CopyingOK'
    <2>1. \A o \in Needs(backup.copy) : files'[o] = files[o]
      BY <1>3, <1>7, <1>8, CompleteStands DEF Needs, Sound, BInv
    <2>2. QED
      BY <2>1 DEF CopyingOK, ToList, CopiedOK, BInv, Needs, Refers
  <1>11. archive'.state = "whole" => Good(a)'
    BY <1>3, <1>4, GoodStands DEF BInv
  <1>12. target'.state = "validated" => Good(t)'
    BY <1>3, <1>4, GoodStands DEF BInv
  <1>13. (archive.state = "whole" => Good(archive.copy))'
    BY <1>4, <1>11 DEF Good, Needs, Refers
  <1>14. (target.state = "validated" => Good(target.copy))'
    BY <1>4, <1>12 DEF Good, Needs, Refers
  <1>15. QED
    BY <1>1, <1>2, <1>6, <1>9, <1>10, <1>13, <1>14 DEF BInv

-----------------------------------------------------------------------------
(***************************************************************************)
(* The steps of the backup.                                                *)
(***************************************************************************)
LEMMA BackupStep ==
    ASSUME BInv, BackupOnly, backup' \in Backing, archive' \in Archive,
           Sound(Refers(backup'.copy)), CopyingOK',
           archive'.state = "whole" => Good(archive'.copy)
    PROVE  BInv'
  <1>1. UNCHANGED <<trustVars, config, target>>
    BY DEF BackupOnly
  <1>2. IInv' /\ NoClientOfCollector'
    BY <1>1, InvStep, CollectorStep DEF BInv
  <1>3. TypeOK'
    BY <1>1, <1>2 DEF BInv, TypeOK, IInv
  <1>4. /\ Sound(config)' /\ Sound(Refers(backup.copy))'
        /\ (archive.state = "whole" => Good(archive.copy))'
        /\ (target.state = "validated" => Good(target.copy))'
    BY <1>1 DEF BInv, Sound, Has, Refers, Good, Needs, trustVars
  <1>5. QED
    BY <1>2, <1>3, <1>4 DEF BInv

\* A backup that is not running has copied nothing.
LEMMA NoneTypes == NotRunning \in Backing /\ NoCopy \in Copy /\ NoArchive \in Archive
  <1>1. NoFiles \in [FileNames -> Content]
    BY TrustAssumption DEF NoFiles, Absent, Content
  <1>2. NoCopy \in Copy
    BY <1>1 DEF NoCopy, Copy
  <1>3. QED
    BY <1>2 DEF NotRunning, Backing, NoArchive, Archive

LEMMA NothingCopied == Refers(NoCopy) = {} /\ Needs(NoCopy) = {}
  BY DEF Refers, Needs, NoCopy

LEMMA StopsStep ==
    ASSUME BInv, GivesUp \/ IsKilled
    PROVE  BInv'
  <1>1. BackupOnly /\ backup' = NotRunning
    BY DEF GivesUp, IsKilled
  <1>2. archive' = archive \/ archive' = NoArchive
    BY DEF GivesUp, IsKilled
  <1>3. archive' \in Archive /\ backup' \in Backing
    BY <1>1, <1>2, NoneTypes DEF BInv, TypeOK
  <1>4. archive'.state = "whole" => Good(archive'.copy)
    BY <1>2 DEF BInv, NoArchive
  <1>5. CopyingOK'
    BY <1>1, NothingCopied DEF CopyingOK, ToList, CopiedOK, NotRunning, Needs, Refers
  <1>6. Sound(Refers(backup'.copy))
    BY <1>1, NothingCopied DEF NotRunning, Sound
  <1>7. QED
    BY <1>1, <1>3, <1>4, <1>5, <1>6, BackupStep

\* A step of the backup that leaves the archive.
LEMMA CopyStep ==
    ASSUME BInv, BackupOnly, archive' = archive, backup' \in Backing,
           Sound(Refers(backup'.copy)), CopyingOK'
    PROVE  BInv'
  BY BackupStep DEF BInv, TypeOK

LEMMA StartsStep ==
    ASSUME BInv, Starts
    PROVE  BInv'
  <1>1. /\ backup'.part = 1 /\ backup'.dirs = {Collector} /\ ~backup'.clients
        /\ backup'.listed = {} /\ backup'.copy = NoCopy
        /\ backup' \in Backing
    <2>1. backup' = [part |-> 1, dirs |-> {Collector}, clients |-> FALSE, listed |-> {},
                     copy |-> NoCopy]
      BY DEF Starts, NotRunning
    <2>2. QED
      BY <2>1, NoneTypes DEF Backing, Owners
  <1>2. CopyingOK'
    <2>1. Needs(backup'.copy) = {}
      BY <1>1, NothingCopied
    <2>2. \A o \in Owners : backup'.copy.files[o] = NoFiles
      BY <1>1 DEF NoCopy
    <2>3. QED
      BY <1>1, <2>1, <2>2 DEF CopyingOK
  <1>3. Sound(Refers(backup'.copy))
    BY <1>1, NothingCopied DEF Sound
  <1>4. QED
    BY <1>1, <1>2, <1>3, CopyStep DEF Starts

\* The parts that what refers to the trust files is in come before all of them.
LEMMA PartsAre ==
    /\ At("database") <=> backup.part = 1
    /\ At("config") <=> backup.part = 2
    /\ At("pki") <=> backup.part = 3
  BY DEF At, Parts

\* What a step leaves of a backup it changes.
Moved(part, copy) ==
    [part |-> part, dirs |-> backup.dirs, clients |-> backup.clients,
     listed |-> backup.listed, copy |-> copy]

LEMMA MovedType ==
    ASSUME backup \in Backing, NEW part \in 0..5, NEW copy \in Copy
    PROVE  Moved(part, copy) \in Backing
  BY DEF Moved, Backing

LEMMA CopiesReferencesStep ==
    ASSUME BInv, CopiesDatabase \/ CopiesConfig
    PROVE  BInv'
  <1>1. /\ backup \in Backing /\ backup.part \in {1, 2} /\ rows \subseteq Servers
        /\ config \subseteq Servers /\ archive' = archive /\ BackupOnly
        /\ Sound(rows) /\ Sound(config) /\ Sound(Refers(backup.copy))
    BY PartsAre DEF BInv, IInv, TypeOK, TrustTypeOK, Sound, CopiesDatabase, CopiesConfig
  <1>2. /\ backup.copy \in Copy
        /\ backup.copy.rows \in SUBSET Servers /\ Sound(backup.copy.rows)
        /\ backup.copy.config \in SUBSET Servers /\ Sound(backup.copy.config)
        /\ backup.copy.files \in [Owners -> [FileNames -> Content]]
    BY <1>1 DEF Backing, Copy, Sound, Refers
  <1>3. PICK R \in SUBSET Servers, C \in SUBSET Servers :
            /\ backup' = Moved(backup.part + 1,
                               [rows |-> R, config |-> C, files |-> backup.copy.files])
            /\ Sound(R) /\ Sound(C)
    <2>1. CASE CopiesDatabase
      <3>1. backup' = Moved(backup.part + 1, [backup.copy EXCEPT !.rows = rows])
        BY <1>1, <2>1 DEF CopiesDatabase, Backing, Moved
      <3>2. [backup.copy EXCEPT !.rows = rows] =
                [rows |-> rows, config |-> backup.copy.config, files |-> backup.copy.files]
        BY <1>2 DEF Copy
      <3>3. QED
        BY <1>1, <1>2, <3>1, <3>2
    <2>2. CASE CopiesConfig
      <3>1. backup' = Moved(backup.part + 1, [backup.copy EXCEPT !.config = config])
        BY <1>1, <2>2 DEF CopiesConfig, Backing, Moved
      <3>2. [backup.copy EXCEPT !.config = config] =
                [rows |-> backup.copy.rows, config |-> config, files |-> backup.copy.files]
        BY <1>2 DEF Copy
      <3>3. QED
        BY <1>1, <1>2, <3>1, <3>2
    <2>3. QED
      BY <2>1, <2>2
  <1>4. PICK copy \in Copy : copy = [rows |-> R, config |-> C, files |-> backup.copy.files]
    BY <1>2 DEF Copy
  <1>5. /\ backup'.part = backup.part + 1 /\ backup'.dirs = backup.dirs
        /\ backup'.listed = backup.listed /\ backup'.clients = backup.clients
        /\ backup'.copy.files = backup.copy.files
        /\ Refers(backup'.copy) = R \cup C
        /\ backup' \in Backing
    <2>1. backup.part + 1 \in 0..5 /\ backup' = Moved(backup.part + 1, copy)
      BY <1>1, <1>3, <1>4
    <2>2. backup' \in Backing
      BY <1>1, <2>1, MovedType
    <2>3. QED
      BY <1>4, <2>1, <2>2 DEF Refers, Moved
  <1>6. Sound(Refers(backup'.copy))
    BY <1>3, <1>5 DEF Sound
  <1>7. /\ backup.dirs = {Collector} /\ ~backup.clients /\ backup.listed = {}
        /\ \A o \in Owners : ToList(o)
    BY <1>1 DEF BInv, CopyingOK, ToList, Owners
  <1>8. CopyingOK'
    <2>1. \A o \in Owners : backup.copy.files[o] = NoFiles
      BY <1>7 DEF BInv, CopyingOK
    <2>2. \A o \in Owners : ToList(o)'
      BY <1>5, <1>7 DEF ToList
    <2>3. backup'.part \in 1..3 /\ Needs(backup'.copy) \subseteq Owners
      BY <1>1, <1>5 DEF Needs
    <2>4. QED
      BY <1>5, <1>7, <2>1, <2>2, <2>3 DEF CopyingOK
  <1>9. QED
    BY <1>1, <1>5, <1>6, <1>8, CopyStep

\* What is not listed of a directory is not there, nor in the copy.
LEMMA ListedIsThere ==
    ASSUME BInv, NEW o \in Owners, ToList(o)
    PROVE  /\ FilesIn(o) \in SUBSET (Owners \X FileNames)
           /\ \A f \in FileNames : <<o, f>> \notin FilesIn(o) =>
                  backup.copy.files[o][f] = files[o][f]
  <1>1. FilesOf(o) \subseteq FileNames
    BY OwnerFiles
  <1>2. backup.copy.files[o] = NoFiles
    BY DEF BInv, CopyingOK
  <1>3. \A f \in FileNames : <<o, f>> \notin FilesIn(o) => files[o][f] = Absent
    BY DEF FilesIn, Exists, FilesOf, BInv, NoClientOfCollector
  <1>4. QED
    BY <1>1, <1>2, <1>3 DEF FilesIn, NoFiles

\* What a step leaves of a backup that lists.
Listing(dirs, clients, listed) ==
    [part |-> backup.part, dirs |-> dirs, clients |-> clients, listed |-> listed,
     copy |-> backup.copy]

\* The identities that are needed have files, and so have the servers among them
\* a directory when theirs are listed.
LEMMA NeededHaveFiles ==
    ASSUME BInv, NEW o \in Needs(backup.copy), o \in Servers
    PROVE  o \in WithFiles
  <1>1. Refers(backup.copy) \in SUBSET Servers
    BY DEF BInv, TypeOK, Backing, Copy, Refers
  <1>2. Has(o) /\ o \in Owners
    BY <1>1 DEF BInv, Sound, Needs
  <1>3. Exists(o, LastFile(o)) /\ LastFile(o) \in FilesOf(o)
    BY <1>2, OwnerFiles DEF Has, Exists
  <1>4. QED
    <2>1. <<o, LastFile(o)>> \in FilesIn(o)
      BY <1>3 DEF FilesIn
    <2>2. QED
      BY <2>1 DEF WithFiles

\* A directory is listed: its files are, and others are found that may be.
LEMMA ListingStep ==
    ASSUME BInv, BackupOnly, UNCHANGED archive, backup.part = 3,
           NEW dirs \in SUBSET Owners, NEW clients \in BOOLEAN,
           NEW found \in SUBSET (Owners \X FileNames),
           backup' = Listing(dirs, clients, backup.listed \cup found),
           Collector \notin dirs, clients => dirs = {},
           \A o \in Owners : ToList(o)' => ToList(o) /\ \A f \in FileNames : <<o, f>> \notin found,
           \A o \in Needs(backup.copy) : ToList(o) =>
               ToList(o)' \/ found = FilesIn(o)
    PROVE  BInv'
  <1>1. backup \in Backing /\ archive' = archive /\ files' = files
    BY DEF BInv, TypeOK, BackupOnly, trustVars
  <1>2. /\ backup'.part = 3 /\ backup'.copy = backup.copy
        /\ backup'.dirs = dirs /\ backup'.clients = clients
        /\ backup'.listed = backup.listed \cup found
    BY DEF Listing
  <1>3. backup' \in Backing
    BY <1>1 DEF Listing, Backing
  <1>4. Sound(Refers(backup'.copy))
    BY <1>2 DEF BInv
  <1>5. Needs(backup'.copy) = Needs(backup.copy)
    BY <1>2
  <1>6. \A o \in Owners : ToList(o)' =>
            /\ backup'.copy.files[o] = NoFiles
            /\ \A f \in FileNames : <<o, f>> \notin backup'.listed
    BY <1>2 DEF BInv, CopyingOK
  <1>7. ASSUME NEW o \in Needs(backup.copy)
        PROVE  ToList(o)' \/ CopiedOK(o)'
    <2>1. CASE ToList(o) /\ found = FilesIn(o)
      <3>1. o \in Owners
        BY DEF Needs
      <3>2. QED
        <4>1. \A f \in FileNames : <<o, f>> \notin found => backup.copy.files[o][f] = files[o][f]
          BY <2>1, <3>1, ListedIsThere
        <4>2. QED
          BY <1>1, <1>2, <4>1 DEF CopiedOK
    <2>2. CASE CopiedOK(o)
      BY <1>1, <1>2, <2>2 DEF CopiedOK
    <2>3. QED
      BY <2>1, <2>2 DEF BInv, CopyingOK
  <1>8. CopyingOK'
    <2>1. \A o \in Needs(backup'.copy) : ToList(o)' \/ CopiedOK(o)'
      BY <1>5, <1>7
    <2>2. backup'.clients => backup'.dirs = {}
      BY <1>2, Zenon
    <2>3. backup'.part \notin 1..2 /\ backup'.part \notin 4..5 /\ Collector \notin backup'.dirs
      BY <1>2
    <2>4. QED
      BY <1>6, <2>1, <2>2, <2>3, Zenon DEF CopyingOK
  <1>9. QED
    BY <1>1, <1>3, <1>4, <1>8, CopyStep

LEMMA ListsTrustStep ==
    ASSUME BInv, ListsTrust
    PROVE  BInv'
  <1>1. /\ backup \in Backing /\ backup.part = 3 /\ Collector \in backup.dirs
        /\ BackupOnly /\ UNCHANGED archive
    BY PartsAre DEF BInv, TypeOK, ListsTrust
  <1>2. PICK there \in BOOLEAN :
            /\ WithFiles # {} => there
            /\ backup' = [backup EXCEPT !.dirs = {}, !.clients = there, !.listed = FilesIn(Collector)]
    BY DEF ListsTrust
  <1>3. \A o \in Owners : ToList(o)
    BY <1>1 DEF ToList, Owners
  <1>4. Collector \in Owners /\ FilesIn(Collector) \in SUBSET (Owners \X FileNames)
    BY <1>3, ListedIsThere DEF Owners
  <1>5. backup.listed = {}
    <2>1. backup.listed \subseteq Owners \X FileNames
      BY <1>1 DEF Backing
    <2>2. \A o \in Owners, f \in FileNames : <<o, f>> \notin backup.listed
      BY <1>3 DEF BInv, CopyingOK
    <2>3. QED
      BY <2>1, <2>2
  <1>6. backup' = Listing({}, there, backup.listed \cup FilesIn(Collector))
    BY <1>1, <1>2, <1>5 DEF Backing, Listing
  <1>7. backup'.dirs = {} /\ backup'.clients = there
    BY <1>6 DEF Listing
  <1>8. \A o \in Owners : ToList(o)' => ToList(o) /\ \A f \in FileNames : <<o, f>> \notin FilesIn(Collector)
    BY <1>3, <1>7, TrustAssumption DEF ToList, FilesIn
  <1>9. \A o \in Needs(backup.copy) : ToList(o) => ToList(o)' \/ FilesIn(Collector) = FilesIn(o)
    <2>1. SUFFICES ASSUME NEW o \in Needs(backup.copy), o \in Servers
                   PROVE  ToList(o)'
      BY DEF Needs, Owners
    <2>2. WithFiles # {}
      BY <2>1, NeededHaveFiles
    <2>3. QED
      BY <1>2, <1>7, <2>1, <2>2 DEF ToList
  <1>10. QED
    BY <1>1, <1>4, <1>6, <1>8, <1>9, ListingStep

LEMMA ListsClientsStep ==
    ASSUME BInv, ListsClients
    PROVE  BInv'
  <1>1. /\ backup \in Backing /\ backup.part = 3 /\ backup.clients
        /\ BackupOnly /\ UNCHANGED archive
    BY PartsAre DEF BInv, TypeOK, ListsClients
  <1>2. PICK S \in SUBSET Servers :
            /\ WithFiles \subseteq S
            /\ backup' = [backup EXCEPT !.dirs = S, !.clients = FALSE]
    BY DEF ListsClients
  <1>3. backup' = Listing(S, FALSE, backup.listed \cup {})
    BY <1>1, <1>2 DEF Backing, Listing
  <1>4. backup'.dirs = S /\ ~backup'.clients /\ S \in SUBSET Owners
    BY <1>3 DEF Listing, Owners
  <1>5. \A o \in Owners : ToList(o)' => ToList(o)
    BY <1>1, <1>4, TrustAssumption DEF ToList
  <1>6. backup.dirs = {}
    BY <1>1 DEF BInv, CopyingOK
  <1>7. \A o \in Needs(backup.copy) : ToList(o) => ToList(o)' \/ {} = FilesIn(o)
    <2>1. SUFFICES ASSUME NEW o \in Needs(backup.copy), ToList(o)
                   PROVE  ToList(o)' \/ {} = FilesIn(o)
      OBVIOUS
    <2>2. CASE o \in Servers
      BY <1>2, <1>4, <2>2, NeededHaveFiles DEF ToList
    <2>3. CASE o = Collector
      BY <1>6, <2>1, <2>3, TrustAssumption DEF ToList
    <2>4. QED
      BY <2>2, <2>3 DEF Needs, Owners
  <1>8. QED
    BY <1>1, <1>3, <1>4, <1>5, <1>7, TrustAssumption, ListingStep

LEMMA ListsServerStep ==
    ASSUME BInv, NEW s \in Servers, ListsServer(s)
    PROVE  BInv'
  <1>1. /\ backup \in Backing /\ backup.part = 3 /\ s \in backup.dirs
        /\ BackupOnly /\ UNCHANGED archive
    BY PartsAre DEF BInv, TypeOK, ListsServer
  <1>2. backup' = Listing(backup.dirs \ {s}, backup.clients, backup.listed \cup FilesIn(s))
    BY <1>1 DEF ListsServer, Backing, Listing
  <1>3. FilesIn(s) \in SUBSET (Owners \X FileNames)
    BY <1>1, ListedIsThere DEF ToList, Owners
  <1>4. backup.dirs \ {s} \in SUBSET Owners /\ backup.clients \in BOOLEAN
    BY <1>1 DEF Backing
  <1>5. ~backup.clients /\ Collector \notin backup.dirs
    BY <1>1, TrustAssumption DEF BInv, CopyingOK
  <1>6. \A o \in Owners : ToList(o)' <=> o \in backup.dirs \ {s}
    BY <1>2, <1>5 DEF Listing, ToList
  <1>7. \A o \in Owners : ToList(o)' => ToList(o) /\ \A f \in FileNames : <<o, f>> \notin FilesIn(s)
    BY <1>6 DEF ToList, FilesIn
  <1>8. \A o \in Needs(backup.copy) : ToList(o) => ToList(o)' \/ FilesIn(s) = FilesIn(o)
    BY <1>5, <1>6 DEF ToList, Needs
  <1>9. QED
    BY <1>1, <1>2, <1>3, <1>4, <1>5, <1>7, <1>8, ListingStep

LEMMA CopiesFileStep ==
    ASSUME BInv, NEW o \in Owners, NEW f \in FileNames, CopiesFile(o, f)
    PROVE  BInv'
  <1>1. /\ backup \in Backing /\ backup.part = 3 /\ <<o, f>> \in backup.listed
        /\ archive' = archive /\ BackupOnly /\ files' = files
        /\ files \in [Owners -> [FileNames -> Content]]
    BY PartsAre DEF BInv, TypeOK, TrustTypeOK, CopiesFile, BackupOnly, trustVars
  <1>2. ~ToList(o)
    BY <1>1 DEF BInv, CopyingOK
  <1>3. backup.copy \in Copy /\ backup.copy.files \in [Owners -> [FileNames -> Content]]
    BY <1>1 DEF Backing, Copy
  <1>4. PICK new \in [Owners -> [FileNames -> Content]] :
            new = [backup.copy.files EXCEPT ![o] = [@ EXCEPT ![f] = files[o][f]]]
    BY <1>1, <1>3
  <1>5. PICK copy \in Copy :
            copy = [rows |-> backup.copy.rows, config |-> backup.copy.config, files |-> new]
    BY <1>3 DEF Copy
  <1>6. backup' = [part |-> backup.part, dirs |-> backup.dirs, clients |-> backup.clients,
                   listed |-> backup.listed \ {<<o, f>>}, copy |-> copy]
    <2>1. [backup.copy EXCEPT !.files[o][f] = files[o][f]] = copy
      <3>1. [backup.copy EXCEPT !.files[o][f] = files[o][f]] = [backup.copy EXCEPT !.files = new]
        BY <1>4
      <3>2. [backup.copy EXCEPT !.files = new] =
                [rows |-> backup.copy.rows, config |-> backup.copy.config, files |-> new]
        BY <1>3 DEF Copy
      <3>3. QED
        BY <1>5, <3>1, <3>2
    <2>2. backup' = [backup EXCEPT !.listed = @ \ {<<o, f>>},
                         !.copy = [@ EXCEPT !.files[o][f] = files[o][f]]]
      BY DEF CopiesFile
    <2>3. QED
      BY <1>1, <2>1, <2>2 DEF Backing
  <1>7. backup' \in Backing
    BY <1>1, <1>5, <1>6 DEF Backing
  <1>8. Refers(backup'.copy) = Refers(backup.copy) /\ Needs(backup'.copy) = Needs(backup.copy)
    BY <1>5, <1>6 DEF Refers, Needs
  <1>9. /\ \A x \in Owners \ {o} : new[x] = backup.copy.files[x]
        /\ \A g \in FileNames \ {f} : new[o][g] = backup.copy.files[o][g]
        /\ new[o][f] = files[o][f]
    BY <1>3, <1>4
  <1>10. /\ backup'.part = 3 /\ backup'.dirs = backup.dirs /\ backup'.clients = backup.clients
         /\ backup'.listed = backup.listed \ {<<o, f>>} /\ backup'.copy.files = new
    BY <1>1, <1>5, <1>6
  <1>11. \A x \in Owners : ToList(x)' <=> ToList(x)
    BY <1>10 DEF ToList
  <1>12. CopyingOK'
    <2>1. \A x \in Owners : ToList(x)' =>
              /\ backup'.copy.files[x] = NoFiles
              /\ \A g \in FileNames : <<x, g>> \notin backup'.listed
      BY <1>2, <1>9, <1>10, <1>11 DEF BInv, CopyingOK
    <2>2. \A x \in Needs(backup.copy) : CopiedOK(x) => CopiedOK(x)'
      BY <1>1, <1>9, <1>10 DEF CopiedOK, Needs
    <2>3. \A x \in Needs(backup.copy) : ToList(x)' \/ CopiedOK(x)'
      BY <1>11, <2>2 DEF BInv, CopyingOK, Needs
    <2>4. QED
      BY <1>8, <1>10, <2>1, <2>3 DEF BInv, CopyingOK
  <1>13. Sound(Refers(backup'.copy))
    BY <1>8 DEF BInv
  <1>14. QED
    BY <1>1, <1>7, <1>12, <1>13, CopyStep

LEMMA LeavesStep ==
    ASSUME BInv, LeavesTrust
    PROVE  BInv'
  <1>1. /\ backup \in Backing /\ backup.part = 3 /\ backup.dirs = {} /\ ~backup.clients
        /\ backup.listed = {} /\ archive' = archive /\ BackupOnly /\ files' = files
    BY PartsAre DEF BInv, TypeOK, LeavesTrust, BackupOnly, trustVars
  <1>2. PICK c \in Copy : c = backup.copy
    BY <1>1 DEF Backing
  <1>3. backup' = Moved(4, c)
    <2>1. backup' = Moved(backup.part + 1, c)
      BY <1>1, <1>2 DEF LeavesTrust, Backing, Moved
    <2>2. QED
      BY <1>1, <2>1
  <1>4. backup' \in Backing
    BY <1>1, <1>3, MovedType
  <1>5. CopyingOK'
    BY <1>1, <1>2, <1>3 DEF BInv, CopyingOK, ToList, CopiedOK, Needs, Refers, Moved
  <1>6. Sound(Refers(backup'.copy))
    BY <1>2, <1>3 DEF Moved, BInv
  <1>7. QED
    BY <1>1, <1>4, <1>5, <1>6, CopyStep

\* Nothing is still to be copied when the archive is written.
LEMMA EncryptsStep ==
    ASSUME BInv, Encrypts
    PROVE  BInv'
  <1>1. /\ backup \in Backing /\ backup.part = 4 /\ BackupOnly /\ files' = files
        /\ archive' = [state |-> "begun", copy |-> NoCopy]
    BY DEF BInv, TypeOK, Encrypts, IsCopied, Parts, BackupOnly, trustVars
  <1>2. PICK c \in Copy : c = backup.copy
    BY <1>1 DEF Backing
  <1>3. 5 \in 0..5 /\ backup' = Moved(5, c)
    <2>1. backup' = Moved(backup.part + 1, c)
      BY <1>1, <1>2 DEF Encrypts, Backing, Moved
    <2>2. QED
      BY <1>1, <2>1
  <1>4. backup' \in Backing
    BY <1>1, <1>3, MovedType
  <1>5. archive' \in Archive /\ archive'.state # "whole"
    BY <1>1, NoneTypes DEF Archive
  <1>6. backup'.copy = backup.copy /\ Sound(Refers(backup'.copy))
    BY <1>2, <1>3 DEF Moved, BInv
  <1>7. CopyingOK'
    BY <1>1, <1>2, <1>3 DEF BInv, CopyingOK, ToList, CopiedOK, Needs, Refers, Moved
  <1>8. QED
    BY <1>1, <1>4, <1>5, <1>6, <1>7, BackupStep

LEMMA FinishesStep ==
    ASSUME BInv, Finishes
    PROVE  BInv'
  <1>1. /\ backup \in Backing /\ backup.part = 5 /\ BackupOnly
        /\ archive' = [state |-> "whole", copy |-> backup.copy] /\ backup' = NotRunning
    BY DEF BInv, TypeOK, Finishes, Encrypting, Parts
  <1>2. archive' \in Archive
    BY <1>1 DEF Archive, Backing
  <1>3. \A o \in Needs(backup.copy) : backup.copy.files[o] = files[o]
    <2>1. SUFFICES ASSUME NEW o \in Needs(backup.copy)
                   PROVE  backup.copy.files[o] = files[o]
      OBVIOUS
    <2>2. \A f \in FileNames : backup.copy.files[o][f] = files[o][f]
      <3>1. ~ToList(o) /\ backup.listed = {}
        BY <1>1 DEF BInv, CopyingOK, ToList
      <3>2. QED
        BY <3>1 DEF BInv, CopyingOK, CopiedOK
    <2>3. /\ backup.copy.files[o] \in [FileNames -> Content]
          /\ files[o] \in [FileNames -> Content]
      BY <1>1 DEF Needs, Backing, Copy, BInv, TypeOK, TrustTypeOK
    <2>4. QED
      BY <2>2, <2>3
  <1>4. Good(archive'.copy)
    BY <1>1, <1>3 DEF Good, BInv
  <1>5. CopyingOK'
    BY <1>1, NothingCopied DEF CopyingOK, ToList, CopiedOK, NotRunning, Needs, Refers
  <1>6. backup' \in Backing /\ Sound(Refers(backup'.copy))
    BY <1>1, NoneTypes, NothingCopied DEF NotRunning, Sound
  <1>7. QED
    BY <1>1, <1>2, <1>4, <1>5, <1>6, BackupStep

-----------------------------------------------------------------------------
(***************************************************************************)
(* The steps of prometheus.yml and of a restore.                           *)
(***************************************************************************)
LEMMA OtherStep ==
    ASSUME BInv, UNCHANGED <<trustVars, backup, archive>>,
           config' \subseteq Servers, Sound(config'), target' \in Target,
           target'.state = "validated" => Good(target'.copy)
    PROVE  BInv'
  <1>1. IInv' /\ NoClientOfCollector'
    BY InvStep, CollectorStep DEF BInv
  <1>2. TypeOK'
    BY <1>1 DEF BInv, TypeOK, IInv
  <1>3. /\ Sound(config)' /\ Sound(Refers(backup.copy))'
        /\ (archive.state = "whole" => Good(archive.copy))'
        /\ (target.state = "validated" => Good(target.copy))'
    BY DEF BInv, Sound, Has, Refers, Good, Needs, trustVars
  <1>4. CopyingOK'
    BY DEF BInv, CopyingOK, ToList, CopiedOK, Needs, Refers, trustVars
  <1>5. QED
    BY <1>1, <1>2, <1>3, <1>4 DEF BInv

LEMMA ReconcilesStep ==
    ASSUME BInv, Reconciles
    PROVE  BInv'
  <1>1. config' \subseteq Servers /\ Sound(config')
    BY DEF Reconciles, BInv, IInv, TrustTypeOK, Sound
  <1>2. target' \in Target /\ (target'.state = "validated" => Good(target'.copy))
    BY DEF Reconciles, BInv, TypeOK
  <1>3. QED
    BY <1>1, <1>2, OtherStep DEF Reconciles

LEMMA RestoreStep ==
    ASSUME BInv, Restores \/ RestoreFails \/ Clears
    PROVE  BInv'
  <1>1. config' \subseteq Servers /\ Sound(config') /\ UNCHANGED <<trustVars, backup, archive>>
    BY DEF Restores, RestoreFails, Clears, RestoreOnly, BInv, TypeOK
  <1>2. target' \in Target /\ (target'.state = "validated" => Good(target'.copy))
    <2>1. CASE Restores
      BY <2>1 DEF Restores, BInv, TypeOK, Archive, Target
    <2>2. CASE RestoreFails \/ Clears
      BY <2>2, NoneTypes DEF RestoreFails, Clears, Empty, Target
    <2>3. QED
      BY <2>1, <2>2
  <1>3. QED
    BY <1>1, <1>2, OtherStep

-----------------------------------------------------------------------------
THEOREM BackupInit == Init => BInv
  <1> SUFFICES ASSUME Init PROVE BInv
    OBVIOUS
  <1>1. IInv
    BY InvInit DEF Init
  <1>2. TypeOK
    BY <1>1, NoneTypes DEF Init, IInv, TypeOK, Empty, Target, NoArchive, Archive
  <1>3. NoClientOfCollector
    BY DEF NoClientOfCollector, Init, TrustInit, Owners
  <1>4. CopyingOK
    BY NothingCopied DEF CopyingOK, ToList, Init, NotRunning, NoCopy
  <1>5. /\ Sound(config) /\ Sound(Refers(backup.copy))
        /\ archive.state # "whole" /\ target.state # "validated"
    BY NothingCopied DEF Sound, Init, NotRunning, NoArchive, Empty
  <1>6. QED
    BY <1>1, <1>2, <1>3, <1>4, <1>5 DEF BInv

THEOREM BackupInv == BInv /\ [Next]_vars => BInv'
  <1> SUFFICES ASSUME BInv, [Next]_vars
               PROVE  BInv'
    OBVIOUS
  <1>1. CASE TrustNext /\ UNCHANGED <<config, backup, archive, target>>
    BY <1>1, TrustStep
  <1>2. CASE UNCHANGED vars
    BY <1>2, TrustStep DEF vars
  <1>3. CASE Starts \/ CopiesDatabase \/ CopiesConfig \/ LeavesTrust
    BY <1>3, StartsStep, CopiesReferencesStep, LeavesStep
  <1>4. CASE ListsTrust \/ ListsClients \/ \E s \in Servers : ListsServer(s)
    BY <1>4, ListsTrustStep, ListsClientsStep, ListsServerStep
  <1>5. CASE \E o \in Owners, f \in FileNames : CopiesFile(o, f)
    BY <1>5, CopiesFileStep
  <1>6. CASE Encrypts \/ Finishes \/ GivesUp \/ IsKilled
    BY <1>6, EncryptsStep, FinishesStep, StopsStep
  <1>7. CASE Reconciles \/ Restores \/ RestoreFails \/ Clears
    BY <1>7, ReconcilesStep, RestoreStep
  <1>8. QED
    BY <1>1, <1>2, <1>3, <1>4, <1>5, <1>6, <1>7 DEF Next

\* The types of the backup, and the lock on each directory that is written to.
THEOREM BackupTypeCorrect == Spec => []TypeOK
  <1>1. BInv => TypeOK
    BY DEF BInv
  <1>2. QED
    BY BackupInit, BackupInv, <1>1, PTL DEF Spec

\* A restored dashboard has, for every server it scrapes, the identity that the
\* collector trusts, and the CA that the certificates of the collectors are of.
THEOREM RestoredTrust == Spec => []RestoredIsTrusted
  <1>1. ASSUME BInv PROVE RestoredIsTrusted
    <2>1. SUFFICES ASSUME target.state = "validated",
                          NEW s \in Refers(target.copy), NEW o \in {s, Collector}
                   PROVE  Complete(o) /\ target.copy.files[o] = files[o]
      BY DEF RestoredIsTrusted, Refers
    <2>2. Good(target.copy) /\ IInv /\ target \in Target
      BY <1>1, <2>1 DEF BInv, TypeOK
    <2>3. s \in Servers
      BY <2>2 DEF Target, Copy, Refers
    <2>4. o \in Needs(target.copy) /\ o \in Owners
      BY <2>3 DEF Needs, Owners
    <2>5. Has(o)
      BY <2>2 DEF Good, Sound
    <2>6. QED
      BY <2>2, <2>4, <2>5, CompleteIsHas DEF Good
  <1>2. QED
    BY BackupInit, BackupInv, <1>1, PTL DEF Spec

\* The trust files are what TrustFiles says of them, with a backup beside them.
THEOREM BackupLeavesTrust == Spec => []IdentityIsOnePiece /\ TrustStands
  <1>1. Init => TrustInit
    BY DEF Init
  <1>2. [Next]_vars => [TrustNext]_trustVars
    BY DEF Next, vars, Reconciles, Starts, CopiesDatabase, CopiesConfig, LeavesTrust,
           ListsTrust, ListsClients, ListsServer, CopiesFile, Encrypts, Finishes, GivesUp, IsKilled,
           Restores, RestoreFails, Clears, BackupOnly, RestoreOnly
  <1>3. TrustInit /\ [][TrustNext]_trustVars => []IdentityIsOnePiece /\ TrustStands
    BY IdentitiesStand, IdentitiesAreOnePiece DEF TrustSpec
  <1>4. QED
    BY <1>1, <1>2, <1>3, PTL DEF Spec
=============================================================================
