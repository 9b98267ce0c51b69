--------------------------- MODULE FdTableProofs ---------------------------
(***************************************************************************)
(* Proofs about FdTable, for any numbers, any limit of the kernel and      *)
(* scripts of any length.                                                  *)
(*                                                                         *)
(* That the list is a true picture of the kernel's table is no inductive   *)
(* invariant: it speaks of the entries that a script may use, and not of   *)
(* connections that wait to be accepted, of the one that a blocking        *)
(* accept() has been given, or of the entry in a blocking close().         *)
(* Picture says what is true of those while they have no entry, or no      *)
(* descriptor, of their own.                                               *)
(***************************************************************************)
EXTENDS FdTable, TLAPS, SequenceTheorems, FiniteSetTheorems,
        WellFoundedInduction

\* Time for each leaf of a proof, in seconds
USE SMTT(20), ZenonT(40)

Entries == [type : {"socket", "file"},
            state : {"init", "new", "listening", "packet_received", "synack_acked"},
            script_fd : Int, live_fd : Int, obj : Nat, is_closed : BOOLEAN]

Shapes ==
    /\ fds \in Seq(Entries)
    /\ is_wire_client \in BOOLEAN
    /\ call \in [op : {"none", "accept", "accepted", "close"},
                 fd : Int, live : Int, obj : Nat]
    /\ call.op # "none" => call.fd \in ScriptFds
    /\ call.op = "accepted" => call.live \in LiveFds
    /\ call.op \in {"accept", "accepted"} => call.obj \in 1 .. objects

\* The objects of the entries differ, and so do the numbers of open entries
DistinctIn(list) ==
    /\ \A i, j \in DOMAIN list : list[i].obj = list[j].obj => i = j
    /\ \A i, j \in DOMAIN list :
          /\ ~list[i].is_closed /\ ~list[j].is_closed
          /\ list[i].script_fd \in ScriptFds /\ list[i].script_fd = list[j].script_fd
          => i = j

Distinct == DistinctIn(fds)

\* The entries of connections that have no descriptors yet
Unaccepted ==
    \A i \in DOMAIN fds :
        /\ fds[i].live_fd = -1 => ~fds[i].is_closed /\ ~is_wire_client
        /\ fds[i].state = "packet_received" =>
              /\ fds[i].live_fd = -1 /\ fds[i].obj # waiting
              /\ call.op = "accepted" => fds[i].obj # call.obj

\* What the open entries stand for, and only they
Denotes ==
    /\ \A i \in OpenEntries : kernel[fds[i].live_fd] = fds[i].obj
    /\ \A i \in DOMAIN fds, n \in LiveFds : kernel[n] = fds[i].obj =>
          \/ i \in OpenEntries /\ fds[i].live_fd = n
          \/ call.op = "accepted" /\ call.obj = fds[i].obj

\* A connection that waits has no descriptor, in the list or in the kernel
Waits ==
    waiting # 0 => /\ \A i \in DOMAIN fds : fds[i].obj = waiting => fds[i].live_fd = -1
                   /\ \A n \in LiveFds : kernel[n] # waiting

\* One that accept() has returned has one in the kernel
Accepted ==
    call.op = "accepted" =>
        /\ call.obj # waiting
        /\ \A n \in LiveFds : kernel[n] = call.obj <=> n = call.live
        /\ \A i \in DOMAIN fds : fds[i].obj = call.obj => fds[i].live_fd = -1

\* The number of a blocking accept() is free, that of a blocking close() is not
KnownIn(list, fd) == \E i \in DOMAIN list : ~list[i].is_closed /\ list[i].script_fd = fd

Numbers ==
    /\ call.op \in {"accept", "accepted"} => ~KnownIn(fds, call.fd)
    /\ call.op = "close" => KnownIn(fds, call.fd)

Picture == Distinct /\ Unaccepted /\ Denotes /\ Waits /\ Accepted /\ Numbers

TypeInv == TypeOK /\ Shapes

IInv == /\ TypeInv
        /\ CarefulScripts => (run = "on" => Picture) /\ SocketsClosed

-----------------------------------------------------------------------------
(* What the helpers return.                                                *)

\* The first entry of several, and the lowest free descriptor.
LEMMA MinIsLeast ==
  ASSUME NEW S \in SUBSET Nat, S # {}
  PROVE  Min(S) \in S /\ \A k \in S : Min(S) =< k
  <1>1. \E m \in S : \A k \in S : <<k, m>> \notin OpToRel(<, Nat)
    BY NatLessThanWellFounded, WFMin, ZenonT(40)
  <1>2. PICK m \in S : \A k \in S : <<k, m>> \notin OpToRel(<, Nat)
    BY <1>1
  <1>3. \A k \in S : ~(k < m)
    BY <1>2 DEF OpToRel
  <1>4. \A k \in S : m =< k
    BY <1>3
  <1>5. QED
    BY <1>4 DEF Min

\* What an entry is.
LEMMA ListFacts ==
  ASSUME TypeInv
  PROVE  /\ Len(fds) \in Nat /\ DOMAIN fds = 1 .. Len(fds)
         /\ \A i \in DOMAIN fds : fds[i] \in Entries
  <1>1. fds \in Seq(Entries)
    BY DEF TypeInv, Shapes
  <1>2. QED
    BY <1>1, LenProperties, ElementOfSeq

\* find_by_script_fd() returns an open entry of that number.
LEMMA FindFacts ==
  ASSUME TypeInv, NEW fd \in ScriptFds, Known(fd)
  PROVE  /\ FindByScriptFd(fd) \in DOMAIN fds
         /\ ~fds[FindByScriptFd(fd)].is_closed
         /\ fds[FindByScriptFd(fd)].script_fd = fd
         /\ fds[FindByScriptFd(fd)].live_fd \in LiveFds
         /\ ToLiveFd(fd) = fds[FindByScriptFd(fd)].live_fd
  <1>1. WithScriptFd(fd) \in SUBSET Nat /\ WithScriptFd(fd) # {}
    BY ListFacts DEF WithScriptFd, Known
  <1>2. FindByScriptFd(fd) \in WithScriptFd(fd)
    BY <1>1, MinIsLeast DEF FindByScriptFd
  <1>3. QED
    BY <1>2, NumbersAssumption DEF WithScriptFd, TypeInv, TypeOK, ToLiveFd

\* The kernel gives a free descriptor.
LEMMA NewFdFacts ==
  ASSUME FreeFds # {}
  PROVE  NewFd \in LiveFds /\ kernel[NewFd] = 0
  <1>1. FreeFds \in SUBSET Nat
    BY NumbersAssumption DEF FreeFds, LiveFds
  <1>2. NewFd \in FreeFds
    BY <1>1, MinIsLeast DEF NewFd
  <1>3. QED
    BY <1>2 DEF FreeFds

\* And two of them to a pipe().
LEMMA PipeFacts ==
  ASSUME Cardinality(FreeFds) >= 2
  PROVE  /\ NewFd \in LiveFds /\ kernel[NewFd] = 0
         /\ Min(FreeFds \ {NewFd}) \in LiveFds /\ kernel[Min(FreeFds \ {NewFd})] = 0
         /\ Min(FreeFds \ {NewFd}) # NewFd
  <1>1. FreeFds # {} /\ FreeFds \ {NewFd} # {}
    <2>1. Cardinality({}) = 0 /\ Cardinality({NewFd}) = 1
      BY FS_EmptySet, FS_Singleton
    <2>2. FreeFds # {} /\ FreeFds # {NewFd}
      BY <2>1
    <2>3. QED
      BY <2>2
  <1>2. FreeFds \ {NewFd} \in SUBSET Nat
    BY NumbersAssumption DEF FreeFds, LiveFds
  <1>3. Min(FreeFds \ {NewFd}) \in FreeFds \ {NewFd}
    BY <1>1, <1>2, MinIsLeast
  <1>4. QED
    BY <1>1, <1>3, NewFdFacts DEF FreeFds

\* The child that run_syscall_accept() finds.
LEMMA ChildFacts ==
  ASSUME TypeInv, Children # {}
  PROVE  /\ AcceptedChild \in DOMAIN fds
         /\ fds[AcceptedChild].type = "socket"
         /\ fds[AcceptedChild].state = "synack_acked"
  <1>1. Children \in SUBSET Nat
    BY ListFacts DEF Children
  <1>2. AcceptedChild \in Children
    BY <1>1, MinIsLeast DEF AcceptedChild
  <1>3. QED
    BY <1>2 DEF Children

\* A new entry comes before the others.
IsPushed(list, e, new, len) ==
    /\ DOMAIN list = 1 .. len /\ DOMAIN new = 1 .. len + 1 /\ new[1] = e
    /\ \A k \in DOMAIN new : k # 1 => k - 1 \in DOMAIN list /\ new[k] = list[k - 1]
    /\ \A k \in DOMAIN list : k + 1 \in DOMAIN new /\ new[k + 1] = list[k]

LEMMA Pushed ==
  ASSUME NEW list \in Seq(Entries), NEW e \in Entries, NEW new, new = <<e>> \o list
  PROVE  /\ new \in Seq(Entries)
         /\ \E len \in Nat : IsPushed(list, e, new, len)
  <1>1. <<e>> \in Seq(Entries) /\ Len(<<e>>) = 1 /\ <<e>>[1] = e
    OBVIOUS
  <1>2. PICK len \in Nat : len = Len(list) /\ DOMAIN list = 1 .. len
    BY LenProperties
  <1>3. /\ new \in Seq(Entries) /\ Len(new) = len + 1
        /\ \A i \in 1 .. len + 1 : new[i] = IF i =< 1 THEN e ELSE list[i - 1]
    <2>1. /\ <<e>> \o list \in Seq(Entries)
          /\ Len(<<e>> \o list) = 1 + len
          /\ \A i \in 1 .. 1 + len : (<<e>> \o list)[i] =
                IF i =< 1 THEN <<e>>[i] ELSE list[i - 1]
      BY <1>1, <1>2, ConcatProperties
    <2>2. QED
      BY <1>1, <2>1
  <1>4. DOMAIN new = 1 .. len + 1
    BY <1>3, LenProperties
  <1>5. new[1] = e
    BY <1>2, <1>3
  <1>6. \A k \in 1 .. len + 1 : k # 1 => k - 1 \in 1 .. len /\ new[k] = list[k - 1]
    BY <1>2, <1>3
  <1>7. \A k \in 1 .. len : k + 1 \in 1 .. len + 1 /\ new[k + 1] = list[k]
    BY <1>2, <1>3
  <1>8. QED
    BY <1>2, <1>3, <1>4, <1>5, <1>6, <1>7 DEF IsPushed

\* An entry is changed where it is.
LEMMA Changed ==
  ASSUME NEW list \in Seq(Entries), NEW i \in DOMAIN list, NEW e \in Entries
  PROVE  /\ [list EXCEPT ![i] = e] \in Seq(Entries)
         /\ DOMAIN [list EXCEPT ![i] = e] = DOMAIN list
         /\ [list EXCEPT ![i] = e][i] = e
         /\ \A j \in DOMAIN list : j # i => [list EXCEPT ![i] = e][j] = list[j]
  BY LenProperties, ExceptSeq

-----------------------------------------------------------------------------
(* Types.                                                                  *)

\* An entry of the list, when there have been n objects
WellFormed(e, n) ==
    /\ e \in Entries
    /\ \/ e.script_fd \in ScriptFds /\ e.live_fd \in LiveFds
       \/ e.script_fd = -1 /\ e.live_fd = -1
    /\ e.obj \in 1 .. n

\* The list and the type invariant.
LEMMA ListIsWellFormed ==
  ASSUME TypeInv
  PROVE  \A i \in DOMAIN fds : WellFormed(fds[i], objects)
  BY ListFacts DEF TypeInv, TypeOK, WellFormed

LEMMA WellFormedGrows ==
  ASSUME NEW m \in Nat, NEW n \in Nat, m =< n, NEW e, WellFormed(e, m)
  PROVE  WellFormed(e, n)
  BY DEF WellFormed

\* Everything in TypeInv but the list
Scalars ==
    /\ is_wire_client \in BOOLEAN
    /\ underTest \in 0 .. objects
    /\ kernel \in [LiveFds -> 0 .. objects]
    /\ waiting \in 0 .. objects /\ objects \in Nat /\ calls \in 0 .. MaxCalls
    /\ call \in [op : {"none", "accept", "accepted", "close"},
                 fd : Int, live : Int, obj : Nat]
    /\ call.op # "none" => call.fd \in ScriptFds
    /\ call.op = "accepted" => call.live \in LiveFds
    /\ call.op \in {"accept", "accepted"} => call.obj \in 1 .. objects
    /\ run \in {"on", "freed"} \union Errors

LEMMA TypeInvParts ==
  TypeInv <=> /\ Scalars
              /\ fds \in Seq(Entries)
              /\ \A i \in DOMAIN fds : WellFormed(fds[i], objects)
  <1>1. ASSUME TypeInv
        PROVE  Scalars
    BY <1>1 DEF TypeInv, TypeOK, Shapes, Scalars
  <1>2. ASSUME Scalars, fds \in Seq(Entries),
               \A i \in DOMAIN fds : WellFormed(fds[i], objects)
        PROVE  TypeInv
    BY <1>2 DEF TypeInv, TypeOK, Shapes, Scalars, WellFormed, Entries
  <1>3. QED
    BY <1>1, <1>2, ListIsWellFormed DEF TypeInv, Shapes

ListWellFormed == /\ fds \in Seq(Entries)
                  /\ \A i \in DOMAIN fds : WellFormed(fds[i], objects)

LEMMA TypeInvFrom == Scalars /\ ListWellFormed => TypeInv
  BY TypeInvParts DEF ListWellFormed

LEMMA TypeInvNext ==
  ASSUME Scalars', fds' \in Seq(Entries),
         \A i \in DOMAIN fds' : WellFormed(fds'[i], objects')
  PROVE  TypeInv'
  <1>1. ListWellFormed'
    BY DEF ListWellFormed
  <1>2. QED
    BY <1>1, TypeInvFrom, PTL

\* A new entry comes first.
LEMMA TypePush ==
  ASSUME NEW list \in Seq(Entries), NEW m \in Nat, NEW n \in Nat, m =< n,
         \A i \in DOMAIN list : WellFormed(list[i], m),
         NEW e, WellFormed(e, n)
  PROVE  /\ <<e>> \o list \in Seq(Entries)
         /\ \A i \in DOMAIN (<<e>> \o list) : WellFormed((<<e>> \o list)[i], n)
  <1>1. e \in Entries
    BY DEF WellFormed
  <1>2. \A i \in DOMAIN list : WellFormed(list[i], n)
    BY WellFormedGrows
  <1>3. QED
    BY <1>1, <1>2, Pushed

LEMMA TypeChange ==
  ASSUME NEW list \in Seq(Entries), NEW n \in Nat,
         \A i \in DOMAIN list : WellFormed(list[i], n),
         NEW i \in DOMAIN list, NEW e, WellFormed(e, n)
  PROVE  /\ [list EXCEPT ![i] = e] \in Seq(Entries)
         /\ \A j \in DOMAIN [list EXCEPT ![i] = e] :
               WellFormed([list EXCEPT ![i] = e][j], n)
  <1>1. e \in Entries
    BY DEF WellFormed
  <1>2. QED
    BY <1>1, Changed

\* Two entries at once are pushed one after the other.
LEMMA PushTwo ==
  ASSUME NEW list \in Seq(Entries), NEW d \in Entries, NEW e \in Entries
  PROVE  <<e, d>> \o list = <<e>> \o (<<d>> \o list)
  <1>1. <<e, d>> = <<e>> \o <<d>>
    OBVIOUS
  <1>2. <<e>> \in Seq(Entries) /\ <<d>> \in Seq(Entries)
    OBVIOUS
  <1>3. (<<e>> \o <<d>>) \o list = <<e>> \o (<<d>> \o list)
    BY <1>2, ConcatAssociative
  <1>4. QED
    BY <1>1, <1>3

\* run_syscall_accept() gives descriptors to an entry, or makes one.
LEMMA RecordTypes ==
  ASSUME TypeInv, NEW fd \in ScriptFds, NEW live \in LiveFds,
         NEW conn \in 1 .. objects, RecordAccept(fd, live, conn)
  PROVE  /\ fds' \in Seq(Entries)
         /\ \A i \in DOMAIN fds' : WellFormed(fds'[i], objects)
         /\ underTest' \in 0 .. objects
         /\ run' \in {"on", "freed"} \union Errors
  <1> USE TypeInvParts
  <1>1. CASE Children # {} /\ fds[AcceptedChild].obj = conn
             /\ fds' = [fds EXCEPT ![AcceptedChild].script_fd = fd,
                                   ![AcceptedChild].live_fd = live]
    <2>0. PICK e : e = [fds[AcceptedChild] EXCEPT !.script_fd = fd, !.live_fd = live]
      OBVIOUS
    <2>1. AcceptedChild \in DOMAIN fds /\ WellFormed(fds[AcceptedChild], objects)
      BY <1>1, ChildFacts
    <2>2. WellFormed(e, objects)
      <3>1. fds[AcceptedChild] \in Entries /\ fd \in Int /\ live \in Int
        BY <2>1, NumbersAssumption DEF WellFormed, LiveFds
      <3>2. e \in Entries /\ e.script_fd = fd /\ e.live_fd = live
            /\ e.obj = fds[AcceptedChild].obj
        BY <2>0, <3>1 DEF Entries
      <3>3. QED
        BY <2>1, <3>2 DEF WellFormed
    <2>3. fds' = [fds EXCEPT ![AcceptedChild] = e]
      BY <2>0, <1>1, <2>1, ListFacts DEF Entries
    <2>4. underTest' = underTest /\ run' = run
      BY <1>1, NumbersAssumption DEF RecordAccept, Scalars
    <2>5. QED
      BY <2>1, <2>2, <2>3, <2>4, TypeChange DEF Scalars
  <1>2. CASE /\ fds' = <<Entry("socket", "init", fd, live, conn)>> \o fds
             /\ underTest' = conn /\ run' = run
    <2>1. WellFormed(Entry("socket", "init", fd, live, conn), objects)
      BY NumbersAssumption DEF WellFormed, Entries, Entry, LiveFds, Scalars
    <2>2. QED
      BY <1>2, <2>1, TypePush DEF Scalars
  <1>3. CASE fds' = fds /\ underTest' = underTest /\ run' \in Errors
    BY <1>3 DEF Scalars
  <1>4. QED
    BY <1>1, <1>2, <1>3 DEF RecordAccept, Errors

LEMMA InitTypes == Init => TypeInv
  BY NumbersAssumption, CallsAssumption
     DEF Init, TypeInv, TypeOK, Shapes, NoCall, LiveFds, Entries

\* The bound on the length of a script.
LEMMA MainRunsTypes ==
  ASSUME TypeInv, MainRuns
  PROVE  calls' \in 0 .. MaxCalls /\ is_wire_client' = is_wire_client
  <1>1. calls \in 0 .. MaxCalls
    BY TypeInvParts DEF Scalars
  <1>2. QED
    BY <1>1, CallsAssumption DEF MainRuns

LEMMA NewEntryTypes ==
  ASSUME TypeInv, NEW fd \in ScriptFds, NEW type \in {"socket", "file"}, NEW test \in BOOLEAN,
         NewEntry(fd, type, test)
  PROVE  TypeInv'
  <1>1. /\ objects \in Nat /\ objects' = objects + 1
        /\ NewFd \in LiveFds /\ kernel \in [LiveFds -> 0 .. objects]
        /\ kernel' = [kernel EXCEPT ![NewFd] = objects + 1]
    BY NewFdFacts, TypeInvParts DEF NewEntry, Scalars
  <1>2. Scalars'
    <2>1. kernel' \in [LiveFds -> 0 .. objects']
      BY <1>1
    <2>2. run' \in {"on", "freed"} \union Errors /\ call' = call
      BY TypeInvParts DEF Scalars, NewEntry, Errors
    <2>3. underTest' \in 0 .. objects' /\ waiting' \in 0 .. objects'
      <3>1. underTest \in 0 .. objects /\ waiting \in 0 .. objects
        BY TypeInvParts DEF Scalars
      <3>2. underTest' \in {underTest, objects + 1} /\ waiting' = waiting
        BY DEF NewEntry
      <3>3. QED
        BY <1>1, <3>1, <3>2
    <2>4. calls' \in 0 .. MaxCalls /\ is_wire_client' = is_wire_client
      BY MainRunsTypes DEF NewEntry
    <2>5. QED
      BY <1>1, <2>1, <2>2, <2>3, <2>4, TypeInvParts DEF Scalars
  <1>3. /\ fds' \in Seq(Entries)
        /\ \A i \in DOMAIN fds' : WellFormed(fds'[i], objects')
    <2>1. CASE fds' = fds
      BY <1>1, <2>1, TypeInvParts, WellFormedGrows
    <2>2. CASE fds' = <<Entry(type, "new", fd, NewFd, objects + 1)>> \o fds
      <3>1. WellFormed(Entry(type, "new", fd, NewFd, objects + 1), objects')
        BY <1>1, NumbersAssumption DEF WellFormed, Entries, Entry, LiveFds
      <3>2. QED
        BY <1>1, <2>2, <3>1, TypePush, TypeInvParts
    <2>3. QED
      BY <2>1, <2>2 DEF NewEntry
  <1>4. QED
    BY <1>2, <1>3, TypeInvNext

LEMMA PipeTypes ==
  ASSUME TypeInv, NEW fd1 \in ScriptFds, NEW fd2 \in ScriptFds, Pipe(fd1, fd2)
  PROVE  TypeInv'
  <1>1. PICK live1, live2 :
          /\ live1 = NewFd /\ live2 = Min(FreeFds \ {NewFd})
          /\ live1 \in LiveFds /\ live2 \in LiveFds
    BY PipeFacts DEF Pipe
  <1>2. /\ kernel' = [kernel EXCEPT ![live1] = objects + 1, ![live2] = objects + 2]
        /\ objects \in Nat /\ objects' = objects + 2
        /\ kernel \in [LiveFds -> 0 .. objects]
    BY <1>1, TypeInvParts DEF Pipe, Scalars
  <1>3. Scalars'
    <2>1. kernel' \in [LiveFds -> 0 .. objects']
      BY <1>1, <1>2
    <2>2. run' \in {"on", "freed"} \union Errors
      BY TypeInvParts DEF Scalars, Pipe, Errors
    <2>3. UNCHANGED <<underTest, waiting, call, is_wire_client>> /\ calls' \in 0 .. MaxCalls
      BY MainRunsTypes DEF Pipe
    <2>4. Scalars
      BY TypeInvParts
    <2>5. QED
      BY <1>2, <2>1, <2>2, <2>3, <2>4 DEF Scalars
  <1>4. /\ fds' \in Seq(Entries)
        /\ \A i \in DOMAIN fds' : WellFormed(fds'[i], objects')
    <2>1. CASE fds' = fds
      BY <1>2, <2>1, TypeInvParts, WellFormedGrows
    <2>2. CASE fds' = <<Entry("file", "new", fd2, live2, objects + 2),
                        Entry("file", "new", fd1, live1, objects + 1)>> \o fds
      <3>1. PICK e1, e2 : /\ e1 = Entry("file", "new", fd1, live1, objects + 1)
                          /\ e2 = Entry("file", "new", fd2, live2, objects + 2)
        OBVIOUS
      <3>2. /\ WellFormed(e1, objects + 1) /\ WellFormed(e2, objects + 2)
            /\ e1 \in Entries /\ e2 \in Entries
        BY <3>1, <1>1, <1>2, NumbersAssumption DEF WellFormed, Entries, Entry, LiveFds
      <3>3. fds' = <<e2>> \o (<<e1>> \o fds)
        BY <2>2, <3>1, <3>2, PushTwo, TypeInvParts
      <3>4. /\ <<e1>> \o fds \in Seq(Entries)
            /\ \A i \in DOMAIN (<<e1>> \o fds) : WellFormed((<<e1>> \o fds)[i], objects + 1)
        BY <1>2, <3>2, TypePush, TypeInvParts
      <3>5. QED
        <4>1. PICK list \in Seq(Entries) :
                /\ list = <<e1>> \o fds
                /\ \A i \in DOMAIN list : WellFormed(list[i], objects + 1)
          BY <3>4
        <4>2. /\ objects + 1 \in Nat /\ objects + 2 \in Nat
              /\ objects + 1 =< objects + 2
          BY <1>2
        <4>3. /\ <<e2>> \o list \in Seq(Entries)
              /\ \A i \in DOMAIN (<<e2>> \o list) :
                    WellFormed((<<e2>> \o list)[i], objects + 2)
          BY <3>2, <4>1, <4>2, TypePush
        <4>4. QED
          BY <1>2, <3>3, <4>1, <4>3
    <2>3. QED
      BY <1>1, <2>1, <2>2 DEF Pipe
  <1>5. QED
    BY <1>3, <1>4, TypeInvNext

\* An entry changes its state, or is marked closed.
LEMMA EntryChanges ==
  ASSUME TypeInv, NEW i \in DOMAIN fds,
         \/ \E st \in {"listening", "synack_acked"} : fds' = [fds EXCEPT ![i].state = st]
         \/ fds' = [fds EXCEPT ![i].is_closed = TRUE]
  PROVE  /\ fds' \in Seq(Entries)
         /\ \A j \in DOMAIN fds' : WellFormed(fds'[j], objects)
  <1>1. PICK r \in Entries : r = fds[i] /\ WellFormed(r, objects)
    BY TypeInvParts DEF WellFormed
  <1>2. PICK e : /\ fds' = [fds EXCEPT ![i] = e]
                 /\ \/ \E st \in {"listening", "synack_acked"} : e = [r EXCEPT !.state = st]
                    \/ e = [r EXCEPT !.is_closed = TRUE]
    BY <1>1
  <1>3. WellFormed(e, objects)
    BY <1>1, <1>2 DEF WellFormed, Entries
  <1>4. QED
    BY <1>2, <1>3, TypeChange, TypeInvParts DEF Scalars

LEMMA FreeLiveTypes ==
  ASSUME TypeInv, NEW live \in LiveFds, FreeLive(live)
  PROVE  kernel' \in [LiveFds -> 0 .. objects] /\ waiting' \in 0 .. objects
  BY TypeInvParts DEF FreeLive, Scalars

LEMMA NextTypes == TypeInv /\ [Next]_vars => TypeInv'
  <1> SUFFICES ASSUME TypeInv, [Next]_vars PROVE TypeInv'
    OBVIOUS
  <1>0. /\ Scalars /\ fds \in Seq(Entries) /\ objects \in Nat
        /\ \A i \in DOMAIN fds : WellFormed(fds[i], objects)
    BY TypeInvParts DEF Scalars
  <1>1. ASSUME NEW fd \in ScriptFds, Socket(fd) \/ OpenFile(fd)
        PROVE  TypeInv'
    BY <1>1, NewEntryTypes DEF Socket, OpenFile
  <1>2. ASSUME NEW fd \in ScriptFds, Listen(fd)
        PROVE  TypeInv'
    <2>1. /\ fds' \in Seq(Entries)
          /\ \A i \in DOMAIN fds' : WellFormed(fds'[i], objects)
      BY <1>2, FindFacts, EntryChanges DEF Listen
    <2>2. Scalars'
      BY <1>0, <1>2, CallsAssumption DEF Listen, MainRuns, Scalars
    <2>3. QED
      BY <1>2, <2>1, <2>2, TypeInvNext DEF Listen
  <1>3. ASSUME NEW fd \in ScriptFds, Close(fd)
        PROVE  TypeInv'
    <2>1. /\ fds' \in Seq(Entries)
          /\ \A i \in DOMAIN fds' : WellFormed(fds'[i], objects)
      BY <1>0, <1>3, FindFacts, EntryChanges DEF Close, MarkClosed
    <2>2. ToLiveFd(fd) \in LiveFds /\ objects' = objects
      BY <1>3, FindFacts DEF Close
    <2>3. kernel' \in [LiveFds -> 0 .. objects] /\ waiting' \in 0 .. objects
      BY <1>3, <2>2, FreeLiveTypes DEF Close
    <2>4. Scalars'
      <3>1. run' \in {"on", "freed"} \union Errors /\ UNCHANGED <<underTest, call>>
        BY <1>0, <1>3 DEF Close, Scalars, Errors
      <3>2. UNCHANGED is_wire_client /\ calls' \in 0 .. MaxCalls
        BY <1>3, MainRunsTypes DEF Close
      <3>3. QED
        BY <1>0, <2>2, <2>3, <3>1, <3>2 DEF Scalars
    <2>5. QED
      BY <2>1, <2>2, <2>4, TypeInvNext
  <1>4. ASSUME NEW fd \in ScriptFds, BeginClose(fd)
        PROVE  TypeInv'
    <2>2. ToLiveFd(fd) \in LiveFds /\ objects' = objects /\ fds' = fds
      BY <1>4, FindFacts DEF BeginClose
    <2>3. kernel' \in [LiveFds -> 0 .. objects] /\ waiting' \in 0 .. objects
      BY <1>4, <2>2, FreeLiveTypes DEF BeginClose
    <2>4. Scalars'
      <3>1. run' \in {"on", "freed"} \union Errors
        BY <1>0, <1>4 DEF BeginClose, Scalars, Errors
      <3>2. \/ call' = call
            \/ call' = [op |-> "close", fd |-> fd, live |-> ToLiveFd(fd), obj |-> 0]
        BY <1>4 DEF BeginClose, NoCall
      <3>3. /\ call' \in [op : {"none", "accept", "accepted", "close"},
                           fd : Int, live : Int, obj : Nat]
            /\ call'.op # "none" => call'.fd \in ScriptFds
            /\ call'.op = "accepted" => call'.live \in LiveFds
            /\ call'.op \in {"accept", "accepted"} => call'.obj \in 1 .. objects
        BY <1>0, <2>2, <3>2, NumbersAssumption DEF Scalars, LiveFds
      <3>4. UNCHANGED <<is_wire_client, underTest>> /\ calls' \in 0 .. MaxCalls
        BY <1>4, MainRunsTypes DEF BeginClose
      <3>5. QED
        BY <1>0, <2>2, <2>3, <3>1, <3>3, <3>4 DEF Scalars
    <2>5. QED
      BY <1>0, <2>2, <2>4, TypeInvNext
  <1>5. ASSUME NEW fd1 \in ScriptFds, NEW fd2 \in ScriptFds, Pipe(fd1, fd2)
        PROVE  TypeInv'
    BY <1>5, PipeTypes
  <1>6. ASSUME NEW listening \in ScriptFds, NEW fd \in ScriptFds, Accept(listening, fd)
        PROVE  TypeInv'
    <2>1. /\ NewFd \in LiveFds /\ waiting \in 1 .. objects /\ objects' = objects
          /\ kernel \in [LiveFds -> 0 .. objects]
          /\ kernel' = [kernel EXCEPT ![NewFd] = waiting]
      BY <1>0, <1>6, NewFdFacts DEF Accept, Scalars
    <2>2. /\ fds' \in Seq(Entries)
          /\ \A i \in DOMAIN fds' : WellFormed(fds'[i], objects)
          /\ underTest' \in 0 .. objects
          /\ run' \in {"on", "freed"} \union Errors
      BY <1>6, <2>1, RecordTypes DEF Accept
    <2>3. kernel' \in [LiveFds -> 0 .. objects]
      BY <2>1
    <2>4. Scalars'
      BY <1>0, <1>6, <2>1, <2>2, <2>3, CallsAssumption DEF Accept, MainRuns, Scalars
    <2>5. QED
      BY <2>1, <2>2, <2>4, TypeInvNext
  <1>7. ASSUME NEW listening \in ScriptFds, NEW fd \in ScriptFds, BeginAccept(listening, fd)
        PROVE  TypeInv'
    <2>1. fds[FindByScriptFd(listening)].obj \in 1 .. objects
      BY <1>0, <1>7, FindFacts DEF BeginAccept, WellFormed
    <2>2. Scalars'
      <3>1. call' = [op |-> "accept", fd |-> fd, live |-> 0,
                     obj |-> fds[FindByScriptFd(listening)].obj]
        BY <1>7 DEF BeginAccept, NoCall
      <3>2. /\ call' \in [op : {"none", "accept", "accepted", "close"},
                           fd : Int, live : Int, obj : Nat]
            /\ call'.op = "accept" /\ call'.fd \in ScriptFds
            /\ call'.obj \in 1 .. objects
        BY <1>0, <2>1, <3>1, NumbersAssumption
      <3>3. /\ UNCHANGED <<is_wire_client, underTest, kernel, waiting, objects, run>>
            /\ calls' \in 0 .. MaxCalls
        BY <1>0, <1>7, CallsAssumption DEF BeginAccept, MainRuns, Scalars
      <3>4. QED
        BY <1>0, <3>2, <3>3 DEF Scalars
    <2>3. QED
      BY <1>0, <1>7, <2>2, TypeInvNext DEF BeginAccept
  <1>8. CASE InboundSyn
    <2>1. objects' = objects + 1
          /\ fds' = <<Entry("socket", "packet_received", -1, -1, objects + 1)>> \o fds
      BY <1>8 DEF InboundSyn
    <2>2. WellFormed(Entry("socket", "packet_received", -1, -1, objects + 1), objects')
          /\ objects' \in Nat /\ objects =< objects'
      BY <1>0, <2>1 DEF WellFormed, Entries, Entry
    <2>3. /\ fds' \in Seq(Entries)
          /\ \A i \in DOMAIN fds' : WellFormed(fds'[i], objects')
      BY <1>0, <2>1, <2>2, TypePush
    <2>4. Scalars'
      BY <1>0, <1>8, CallsAssumption DEF InboundSyn, MainRuns, Scalars
    <2>5. QED
      BY <2>3, <2>4, TypeInvNext
  <1>9. CASE HandshakeDone
    <2>1. /\ fds' \in Seq(Entries)
          /\ \A i \in DOMAIN fds' : WellFormed(fds'[i], objects)
      BY <1>9, EntryChanges DEF HandshakeDone
    <2>2. Scalars'
      BY <1>0, <1>9, CallsAssumption DEF HandshakeDone, MainRuns, Scalars
    <2>3. QED
      BY <1>9, <2>1, <2>2, TypeInvNext DEF HandshakeDone
  <1>10. CASE RemoteConnects
    <2>1. Scalars'
      BY <1>0, <1>10, CallsAssumption DEF RemoteConnects, MainRuns, Scalars
    <2>2. \A i \in DOMAIN fds' : WellFormed(fds'[i], objects')
      BY <1>0, <1>10, WellFormedGrows DEF RemoteConnects
    <2>3. QED
      BY <1>0, <1>10, <2>1, <2>2, TypeInvNext DEF RemoteConnects
  <1>11. CASE EndClose
    <2>0. call.fd \in ScriptFds
      BY <1>0, <1>11 DEF EndClose, Scalars
    <2>1. /\ fds' \in Seq(Entries)
          /\ \A i \in DOMAIN fds' : WellFormed(fds'[i], objects)
      BY <1>0, <1>11, <2>0, FindFacts, EntryChanges DEF EndClose, MarkClosed
    <2>2. Scalars'
      <3>1. run' \in {"on", "freed"} \union Errors
        BY <1>0, <1>11 DEF EndClose, Scalars, Errors
      <3>2. /\ call' \in [op : {"none", "accept", "accepted", "close"},
                           fd : Int, live : Int, obj : Nat]
            /\ call'.op = "none"
        <4>1. call' = [op |-> "none", fd |-> 0, live |-> 0, obj |-> 0]
          BY <1>11 DEF EndClose, NoCall
        <4>2. QED
          BY <4>1
      <3>3. QED
        BY <1>0, <1>11, <3>1, <3>2 DEF EndClose, ThreadRuns, Scalars
    <2>3. QED
      BY <1>11, <2>1, <2>2, TypeInvNext DEF EndClose
  <1>12. CASE AcceptReturns
    <2>1. /\ NewFd \in LiveFds /\ waiting \in 1 .. objects /\ objects' = objects
          /\ kernel \in [LiveFds -> 0 .. objects]
          /\ kernel' = [kernel EXCEPT ![NewFd] = waiting]
      BY <1>0, <1>12, NewFdFacts DEF AcceptReturns, Scalars
    <2>2. kernel' \in [LiveFds -> 0 .. objects]
      BY <2>1
    <2>3. Scalars'
      <3>1. call' = [op |-> "accepted", fd |-> call.fd, live |-> NewFd, obj |-> waiting]
        BY <1>0, <1>12 DEF AcceptReturns, Scalars
      <3>2. /\ call' \in [op : {"none", "accept", "accepted", "close"},
                           fd : Int, live : Int, obj : Nat]
            /\ call'.fd \in ScriptFds /\ call'.live \in LiveFds
            /\ call'.obj \in 1 .. objects
        BY <1>0, <1>12, <2>1, <3>1, NumbersAssumption DEF AcceptReturns, Scalars, LiveFds
      <3>3. QED
        BY <1>0, <1>12, <2>1, <2>2, <3>2 DEF AcceptReturns, ThreadRuns, Scalars
    <2>4. QED
      BY <1>0, <1>12, <2>3, TypeInvNext DEF AcceptReturns
  <1>13. CASE EndAccept
    <2>1. /\ call.fd \in ScriptFds /\ call.live \in LiveFds /\ call.obj \in 1 .. objects
      BY <1>0, <1>13 DEF EndAccept, Scalars
    <2>2. /\ fds' \in Seq(Entries)
          /\ \A i \in DOMAIN fds' : WellFormed(fds'[i], objects)
          /\ underTest' \in 0 .. objects
          /\ run' \in {"on", "freed"} \union Errors
      BY <1>13, <2>1, RecordTypes DEF EndAccept
    <2>3. Scalars'
      BY <1>0, <1>13, <2>2 DEF EndAccept, ThreadRuns, Scalars, NoCall
    <2>4. QED
      BY <1>13, <2>2, <2>3, TypeInvNext DEF EndAccept
  <1>14. CASE StateFree
    <2>1. Scalars'
      <3>1. run' \in {"on", "freed"} \union Errors
        BY <1>14 DEF StateFree, Errors
      <3>2. kernel' \in [LiveFds -> 0 .. objects]
        <4>1. kernel \in [LiveFds -> 0 .. objects] /\ objects \in Nat
          BY <1>0 DEF Scalars
        <4>2. \/ kernel' = kernel
              \/ kernel' = [n \in LiveFds |-> IF n \in ToClose THEN 0 ELSE kernel[n]]
          BY <1>14 DEF StateFree
        <4>3. QED
          BY <4>1, <4>2
      <3>3. UNCHANGED <<is_wire_client, underTest, waiting, call, objects, calls>>
        BY <1>14 DEF StateFree
      <3>4. QED
        BY <1>0, <3>1, <3>2, <3>3 DEF Scalars
    <2>2. QED
      BY <1>0, <1>14, <2>1, TypeInvNext DEF StateFree
  <1>15. CASE UNCHANGED vars
    BY <1>15 DEF vars, TypeInv, TypeOK, Shapes
  <1>16. QED
    BY <1>1, <1>2, <1>3, <1>4, <1>5, <1>6, <1>7, <1>8, <1>9, <1>10, <1>11, <1>12,
       <1>13, <1>14, <1>15 DEF Next

\* Every entry keeps its type, and has both descriptors or neither - what
\* find_by_script_fd() and socket_close() assert.
THEOREM FdTypes == Spec => []TypeOK
  <1>1. TypeInv => TypeOK
    BY DEF TypeInv
  <1>2. QED
    BY InitTypes, NextTypes, <1>1, PTL DEF Spec

-----------------------------------------------------------------------------
(* The picture of the kernel's table, step by step.                        *)

\* What is known of the numbers, as plain facts.
LEMMA PlainFacts ==
  ASSUME TypeInv
  PROVE  /\ \A n \in LiveFds : n \in Nat /\ kernel[n] \in Nat /\ kernel[n] =< objects
         /\ ScriptFds \subseteq Nat /\ objects \in Nat
         /\ waiting \in Nat /\ waiting =< objects
         /\ call.op \in {"accept", "accepted"} =>
               call.obj \in Nat /\ call.obj # 0 /\ call.obj =< objects
         /\ call.op # "none" => call.fd \in ScriptFds
         /\ call.op = "accepted" => call.live \in LiveFds
         /\ \A i \in DOMAIN fds :
               /\ fds[i].obj \in Nat /\ fds[i].obj # 0 /\ fds[i].obj =< objects
               /\ \/ fds[i].script_fd \in ScriptFds /\ fds[i].live_fd \in LiveFds
                  \/ fds[i].script_fd = -1 /\ fds[i].live_fd = -1
  BY TypeInvParts, NumbersAssumption DEF Scalars, WellFormed, LiveFds

LEMMA KnownIsKnown == \A fd : Known(fd) <=> KnownIn(fds, fd)
  BY DEF Known, KnownIn, WithScriptFd

\* A new entry of another object, and of another number.
LEMMA DistinctPush ==
  ASSUME NEW list \in Seq(Entries), DistinctIn(list), NEW e \in Entries,
         \A k \in DOMAIN list : list[k].obj # e.obj,
         e.script_fd \in ScriptFds => ~KnownIn(list, e.script_fd)
  PROVE  DistinctIn(<<e>> \o list)
  <1>1. PICK new : new = <<e>> \o list
    OBVIOUS
  <1>2. PICK len \in Nat : IsPushed(list, e, new, len)
    BY <1>1, Pushed
  <1> USE DEF IsPushed
  <1>3. \A k \in DOMAIN new : k # 1 =>
           /\ new[k].obj # e.obj
           /\ ~new[k].is_closed /\ e.script_fd \in ScriptFds => new[k].script_fd # e.script_fd
    BY <1>2 DEF KnownIn
  <1>4. ASSUME NEW i \in DOMAIN new, NEW j \in DOMAIN new
        PROVE  /\ new[i].obj = new[j].obj => i = j
               /\ /\ ~new[i].is_closed /\ ~new[j].is_closed
                  /\ new[i].script_fd \in ScriptFds
                  /\ new[i].script_fd = new[j].script_fd
                  => i = j
    <2>1. CASE i = 1 \/ j = 1
      BY <1>2, <1>3, <2>1
    <2>2. CASE i # 1 /\ j # 1
      <3>1. PICK k, l \in DOMAIN list : /\ k = i - 1 /\ new[i] = list[k]
                                        /\ l = j - 1 /\ new[j] = list[l]
        BY <1>2, <2>2
      <3>2. k = l => i = j
        BY <1>2, <3>1
      <3>3. QED
        BY <3>1, <3>2 DEF DistinctIn
    <2>3. QED
      BY <2>1, <2>2
  <1>5. QED
    BY <1>1, <1>4 DEF DistinctIn

LEMMA KnownPush ==
  ASSUME NEW list \in Seq(Entries), NEW e \in Entries, NEW fd
  PROVE  KnownIn(<<e>> \o list, fd) <=>
            (~e.is_closed /\ e.script_fd = fd) \/ KnownIn(list, fd)
  <1>1. PICK new : new = <<e>> \o list
    OBVIOUS
  <1>2. PICK len \in Nat : IsPushed(list, e, new, len)
    BY <1>1, Pushed
  <1> USE DEF IsPushed
  <1>3. ASSUME KnownIn(new, fd)
        PROVE  (~e.is_closed /\ e.script_fd = fd) \/ KnownIn(list, fd)
    <2>1. PICK k \in DOMAIN new : ~new[k].is_closed /\ new[k].script_fd = fd
      BY <1>3 DEF KnownIn
    <2>2. QED
      BY <1>2, <2>1 DEF KnownIn
  <1>4. ASSUME ~e.is_closed, e.script_fd = fd
        PROVE  KnownIn(new, fd)
    BY <1>2, <1>4 DEF KnownIn
  <1>5. ASSUME KnownIn(list, fd)
        PROVE  KnownIn(new, fd)
    BY <1>2, <1>5 DEF KnownIn
  <1>6. QED
    BY <1>1, <1>3, <1>4, <1>5

\* socket(), open() and epoll_create().
LEMMA NewEntryPicture ==
  ASSUME TypeInv, Picture, CarefulScripts,
         NEW fd \in ScriptFds, NEW type \in {"socket", "file"}, NEW test \in BOOLEAN,
         NewEntry(fd, type, test), run' = "on"
  PROVE  Picture'
  <1>1. /\ ~DuplicateScriptFd(fd)
        /\ fds' = <<Entry(type, "new", fd, NewFd, objects + 1)>> \o fds
        /\ objects' = objects + 1 /\ kernel' = [kernel EXCEPT ![NewFd] = objects + 1]
        /\ waiting' = waiting /\ call' = call /\ is_wire_client' = is_wire_client
        /\ ~Reserved(fd) /\ NewFd \in LiveFds /\ kernel[NewFd] = 0
    BY NewFdFacts DEF NewEntry, MainRuns
  <1>2. PICK live \in LiveFds : live = NewFd /\ kernel[live] = 0
                             /\ kernel' = [kernel EXCEPT ![live] = objects + 1]
    BY <1>1
  <1>3. PICK e \in Entries : e = Entry(type, "new", fd, live, objects + 1)
    <2>1. live \in Int /\ objects + 1 \in Nat
      BY PlainFacts
    <2>2. fd \in Int
      BY NumbersAssumption
    <2>3. Entry(type, "new", fd, live, objects + 1) \in Entries
      BY <2>1, <2>2 DEF Entry, Entries
    <2>4. QED
      BY <2>3
  <1>4. /\ e.state = "new" /\ e.script_fd = fd /\ e.live_fd = live
        /\ e.obj = objects + 1 /\ ~e.is_closed
    BY <1>3 DEF Entry
  <1>5. PICK len \in Nat : IsPushed(fds, e, fds', len)
    <2>1. fds \in Seq(Entries) /\ fds' = <<e>> \o fds
      BY <1>1, <1>2, <1>3, TypeInvParts
    <2>2. QED
      BY <2>1, Pushed
  <1>6. \A i \in DOMAIN fds : ~fds[i].is_closed => fds[i].script_fd # fd
    BY <1>1 DEF DuplicateScriptFd, WithScriptFd
  <1>7. /\ \A n \in LiveFds : kernel'[n] = IF n = live THEN objects + 1 ELSE kernel[n]
    BY <1>2, TypeInvParts DEF Scalars
  <1>8. /\ call.op = "close" => call.fd # fd
        /\ call.op \in {"accept", "accepted"} => call.fd # fd
    BY <1>1, <1>6 DEF Reserved, Picture, Numbers, KnownIn
  <1> USE PlainFacts DEF Picture, IsPushed
  <1>9. Distinct'
    <2>1. \A k \in DOMAIN fds : fds[k].obj # e.obj
      BY <1>4
    <2>2. ~KnownIn(fds, e.script_fd) /\ fds \in Seq(Entries) /\ fds' = <<e>> \o fds
      BY <1>1, <1>2, <1>3, <1>4, <1>6, TypeInvParts DEF KnownIn
    <2>3. QED
      BY <2>1, <2>2, DistinctPush DEF Distinct
  <1>10. Unaccepted'
    BY <1>1, <1>4, <1>5 DEF Unaccepted
  <1>11. Denotes'
    <2>1. ASSUME NEW i \in DOMAIN fds'
          PROVE  \/ i = 1 /\ i \in OpenEntries' /\ fds'[i] = e
                 \/ /\ i - 1 \in DOMAIN fds /\ fds'[i] = fds[i - 1]
                    /\ (i \in OpenEntries') <=> (i - 1 \in OpenEntries)
      BY <1>1, <1>4, <1>5, <1>8 DEF OpenEntries, Closing
    <2>2. ASSUME NEW i \in OpenEntries'
          PROVE  kernel'[fds'[i].live_fd] = fds'[i].obj
      <3>1. i \in DOMAIN fds'
        BY DEF OpenEntries
      <3>2. CASE fds'[i] = e
        BY <3>2, <1>4, <1>7
      <3>3. CASE i - 1 \in OpenEntries /\ fds'[i] = fds[i - 1]
        BY <3>3, <1>2, <1>7 DEF Denotes, OpenEntries
      <3>4. QED
        BY <3>1, <3>2, <3>3, <2>1
    <2>3. ASSUME NEW i \in DOMAIN fds', NEW n \in LiveFds, kernel'[n] = fds'[i].obj
          PROVE  \/ i \in OpenEntries' /\ fds'[i].live_fd = n
                 \/ call'.op = "accepted" /\ call'.obj = fds'[i].obj
      <3>1. CASE i \in OpenEntries' /\ fds'[i] = e
        BY <3>1, <2>3, <1>4, <1>7
      <3>2. CASE /\ i - 1 \in DOMAIN fds /\ fds'[i] = fds[i - 1]
                 /\ (i \in OpenEntries') <=> (i - 1 \in OpenEntries)
        BY <3>2, <2>3, <1>1, <1>7 DEF Denotes
      <3>3. QED
        BY <3>1, <3>2, <2>1
    <2>4. QED
      BY <2>2, <2>3 DEF Denotes
  <1>12. Waits'
    BY <1>1, <1>4, <1>5, <1>7 DEF Waits
  <1>13. Accepted'
    <2>1. ASSUME call.op = "accepted"
          PROVE  \A n \in LiveFds : kernel'[n] = call.obj <=> n = call.live
      <3>1. \A n \in LiveFds : kernel[n] = call.obj <=> n = call.live
        BY <2>1 DEF Accepted
      <3>2. call.obj =< objects /\ call.obj # 0 /\ objects \in Nat /\ call.obj \in Nat
        BY <2>1
      <3>3. live # call.live
        BY <3>1, <3>2, <1>2
      <3>4. QED
        BY <3>1, <3>2, <3>3, <1>7
    <2>2. ASSUME call.op = "accepted", NEW i \in DOMAIN fds', fds'[i].obj = call.obj
          PROVE  fds'[i].live_fd = -1
      <3>1. call.obj =< objects /\ objects \in Nat
        BY <2>2
      <3>2. \A k \in DOMAIN fds : fds[k].obj = call.obj => fds[k].live_fd = -1
        BY <2>2 DEF Accepted
      <3>3. CASE i = 1
        BY <2>2, <3>1, <3>3, <1>4, <1>5
      <3>4. CASE i # 1
        BY <2>2, <3>2, <3>4, <1>5
      <3>5. QED
        BY <3>3, <3>4
    <2>3. QED
      BY <2>1, <2>2, <1>1 DEF Accepted
  <1>14. Numbers'
    <2>1. fds \in Seq(Entries) /\ fds' = <<e>> \o fds
      BY <1>1, <1>2, <1>3, TypeInvParts
    <2>2. \A n : KnownIn(fds', n) <=> (n = fd \/ KnownIn(fds, n))
      BY <1>4, <2>1, KnownPush
    <2>3. QED
      BY <1>1, <1>8, <2>2 DEF Numbers
  <1>15. QED
    BY <1>9, <1>10, <1>11, <1>12, <1>13, <1>14

\* A SYN comes in: a new entry without descriptors.
LEMMA InboundSynPicture ==
  ASSUME TypeInv, Picture, InboundSyn
  PROVE  Picture'
  <1>1. /\ fds' = <<Entry("socket", "packet_received", -1, -1, objects + 1)>> \o fds
        /\ objects' = objects + 1 /\ kernel' = kernel /\ ~is_wire_client
        /\ waiting' = waiting /\ call' = call /\ is_wire_client' = is_wire_client
    BY DEF InboundSyn, MainRuns
  <1>2. PICK e \in Entries : e = Entry("socket", "packet_received", -1, -1, objects + 1)
    <2>1. objects + 1 \in Nat /\ -1 \in Int
      BY PlainFacts
    <2>2. Entry("socket", "packet_received", -1, -1, objects + 1) \in Entries
      BY <2>1 DEF Entry, Entries
    <2>3. QED
      BY <2>2
  <1>3. /\ e.state = "packet_received" /\ e.script_fd = -1 /\ e.live_fd = -1
        /\ e.obj = objects + 1 /\ ~e.is_closed
    BY <1>2 DEF Entry
  <1>4. fds \in Seq(Entries) /\ fds' = <<e>> \o fds
    BY <1>1, <1>2, TypeInvParts
  <1>5. PICK len \in Nat : IsPushed(fds, e, fds', len)
    BY <1>4, Pushed
  <1> USE PlainFacts DEF Picture, IsPushed
  <1>6. \A k \in DOMAIN fds : fds[k].obj # e.obj
    BY <1>3
  <1>7. Distinct'
    <2>1. e.script_fd \notin ScriptFds
      BY <1>3
    <2>2. QED
      BY <1>4, <1>6, <2>1, DistinctPush DEF Distinct
  <1>8. Unaccepted'
    BY <1>1, <1>3, <1>5 DEF Unaccepted
  <1>9. Denotes'
    <2>1. ASSUME NEW i \in DOMAIN fds'
          PROVE  \/ i = 1 /\ i \notin OpenEntries' /\ fds'[i] = e
                 \/ /\ i - 1 \in DOMAIN fds /\ fds'[i] = fds[i - 1]
                    /\ (i \in OpenEntries') <=> (i - 1 \in OpenEntries)
      BY <1>1, <1>3, <1>5 DEF OpenEntries, Closing
    <2>2. ASSUME NEW i \in OpenEntries'
          PROVE  kernel'[fds'[i].live_fd] = fds'[i].obj
      BY <1>1, <2>1 DEF Denotes, OpenEntries
    <2>3. ASSUME NEW i \in DOMAIN fds', NEW n \in LiveFds, kernel'[n] = fds'[i].obj
          PROVE  \/ i \in OpenEntries' /\ fds'[i].live_fd = n
                 \/ call'.op = "accepted" /\ call'.obj = fds'[i].obj
      <3>1. fds'[i] # e
        BY <1>1, <1>3, <2>3
      <3>2. /\ i - 1 \in DOMAIN fds /\ fds'[i] = fds[i - 1]
            /\ (i \in OpenEntries') <=> (i - 1 \in OpenEntries)
        BY <2>1, <3>1
      <3>3. QED
        BY <1>1, <2>3, <3>2 DEF Denotes
    <2>4. QED
      BY <2>2, <2>3 DEF Denotes
  <1>10. Waits'
    BY <1>1, <1>3, <1>5 DEF Waits
  <1>11. Accepted'
    BY <1>1, <1>3, <1>5 DEF Accepted
  <1>12. Numbers'
    <2>1. \A n \in ScriptFds : KnownIn(fds', n) <=> KnownIn(fds, n)
      BY <1>3, <1>4, KnownPush
    <2>2. QED
      BY <1>1, <2>1 DEF Numbers
  <1>13. QED
    BY <1>7, <1>8, <1>9, <1>10, <1>11, <1>12

\* pipe(): two new entries.
LEMMA PipePicture ==
  ASSUME TypeInv, Picture, CarefulScripts,
         NEW fd1 \in ScriptFds, NEW fd2 \in ScriptFds, Pipe(fd1, fd2), run' = "on"
  PROVE  Picture'
  <1>1. PICK live1, live2 \in LiveFds :
          /\ live1 = NewFd /\ live2 = Min(FreeFds \ {NewFd})
          /\ kernel[live1] = 0 /\ kernel[live2] = 0 /\ live1 # live2
    BY PipeFacts DEF Pipe
  <1>2. /\ fds' = <<Entry("file", "new", fd2, live2, objects + 2),
                    Entry("file", "new", fd1, live1, objects + 1)>> \o fds
        /\ kernel' = [kernel EXCEPT ![live1] = objects + 1, ![live2] = objects + 2]
    BY <1>1 DEF Pipe, MainRuns
  <1>3. /\ ~DuplicateScriptFd(fd1) /\ ~DuplicateScriptFd(fd2) /\ fd1 # fd2
        /\ objects' = objects + 2
        /\ waiting' = waiting /\ call' = call /\ is_wire_client' = is_wire_client
        /\ ~Reserved(fd1) /\ ~Reserved(fd2)
    BY DEF Pipe, MainRuns
  <1>4. PICK e1, e2 \in Entries : /\ e1 = Entry("file", "new", fd1, live1, objects + 1)
                                 /\ e2 = Entry("file", "new", fd2, live2, objects + 2)
    <2>1. /\ live1 \in Int /\ live2 \in Int /\ objects + 1 \in Nat /\ objects + 2 \in Nat
          /\ fd1 \in Int /\ fd2 \in Int
      BY PlainFacts, NumbersAssumption
    <2>2. /\ Entry("file", "new", fd1, live1, objects + 1) \in Entries
          /\ Entry("file", "new", fd2, live2, objects + 2) \in Entries
      BY <2>1 DEF Entry, Entries
    <2>3. QED
      BY <2>2
  <1>5. /\ e1.state = "new" /\ e1.script_fd = fd1 /\ e1.live_fd = live1
        /\ e1.obj = objects + 1 /\ ~e1.is_closed
        /\ e2.state = "new" /\ e2.script_fd = fd2 /\ e2.live_fd = live2
        /\ e2.obj = objects + 2 /\ ~e2.is_closed
    BY <1>4 DEF Entry
  <1>6. fds \in Seq(Entries) /\ fds' = <<e2>> \o (<<e1>> \o fds)
    BY <1>2, <1>4, PushTwo, TypeInvParts
  <1>7. PICK list \in Seq(Entries), len \in Nat :
          list = <<e1>> \o fds /\ IsPushed(fds, e1, list, len)
    BY <1>6, Pushed
  <1>8. PICK more \in Nat : IsPushed(list, e2, fds', more)
    BY <1>6, <1>7, Pushed
  <1> USE PlainFacts DEF Picture, IsPushed
  <1>9. ASSUME NEW i \in DOMAIN fds'
        PROVE  \/ fds'[i] = e1 \/ fds'[i] = e2
               \/ \E k \in DOMAIN fds : fds'[i] = fds[k]
    <2>1. i = 1 \/ (i - 1 \in DOMAIN list /\ fds'[i] = list[i - 1])
      BY <1>8
    <2>2. \A j \in DOMAIN list : j = 1 \/ (j - 1 \in DOMAIN fds /\ list[j] = fds[j - 1])
      BY <1>7
    <2>3. fds'[1] = e2 /\ list[1] = e1
      BY <1>7, <1>8
    <2>4. QED
      BY <2>1, <2>2, <2>3
  <1>10. \A i \in DOMAIN fds : ~fds[i].is_closed => fds[i].script_fd \notin {fd1, fd2}
    BY <1>3 DEF DuplicateScriptFd, WithScriptFd
  <1>11. \A n \in LiveFds : kernel'[n] = IF n = live1 THEN objects + 1
                                        ELSE IF n = live2 THEN objects + 2 ELSE kernel[n]
    BY <1>1, <1>2, TypeInvParts DEF Scalars
  <1>12. call.op \in {"close", "accept", "accepted"} => call.fd \notin {fd1, fd2}
    BY <1>3, <1>10 DEF Reserved, Numbers, KnownIn
  <1>13. Distinct'
    <2>1. DistinctIn(list)
      <3>1. ~KnownIn(fds, e1.script_fd) /\ \A k \in DOMAIN fds : fds[k].obj # e1.obj
        BY <1>5, <1>10 DEF KnownIn
      <3>2. QED
        BY <1>6, <1>7, <3>1, DistinctPush DEF Distinct
    <2>2. ~KnownIn(list, e2.script_fd)
      <3>1. ~KnownIn(fds, fd2)
        BY <1>10 DEF KnownIn
      <3>2. KnownIn(list, fd2) <=> (~e1.is_closed /\ e1.script_fd = fd2) \/ KnownIn(fds, fd2)
        BY <1>6, <1>7, KnownPush
      <3>3. QED
        BY <1>3, <1>5, <3>1, <3>2
    <2>3. \A k \in DOMAIN list : list[k].obj # e2.obj
      BY <1>5, <1>7
    <2>4. DistinctIn(<<e2>> \o list)
      BY <2>1, <2>2, <2>3, DistinctPush
    <2>5. QED
      BY <1>6, <1>7, <2>4 DEF Distinct
  <1>14. Unaccepted'
    BY <1>3, <1>5, <1>9 DEF Unaccepted
  <1>15. Denotes'
    <2>1. ASSUME NEW i \in DOMAIN fds'
          PROVE  \/ i \in OpenEntries' /\ fds'[i] \in {e1, e2}
                 \/ \E k \in DOMAIN fds :
                       fds'[i] = fds[k] /\ ((i \in OpenEntries') <=> (k \in OpenEntries))
      BY <1>3, <1>5, <1>9, <1>12 DEF OpenEntries, Closing
    <2>2. ASSUME NEW i \in OpenEntries'
          PROVE  kernel'[fds'[i].live_fd] = fds'[i].obj
      <3>1. i \in DOMAIN fds'
        BY DEF OpenEntries
      <3>2. CASE fds'[i] \in {e1, e2}
        BY <3>2, <1>1, <1>5, <1>11
      <3>3. ASSUME NEW k \in OpenEntries, fds'[i] = fds[k]
            PROVE  kernel'[fds'[i].live_fd] = fds'[i].obj
        <4>1. /\ fds[k].live_fd \in LiveFds /\ fds[k].obj # 0
              /\ kernel[fds[k].live_fd] = fds[k].obj
          BY DEF Denotes, OpenEntries
        <4>2. QED
          BY <3>3, <4>1, <1>1, <1>11
      <3>4. ASSUME NEW k \in DOMAIN fds, fds'[i] = fds[k],
                   (i \in OpenEntries') <=> (k \in OpenEntries)
            PROVE  kernel'[fds'[i].live_fd] = fds'[i].obj
        BY <3>3, <3>4
      <3>5. QED
        BY <2>1, <3>1, <3>2, <3>4
    <2>3. ASSUME NEW i \in DOMAIN fds', NEW n \in LiveFds, kernel'[n] = fds'[i].obj
          PROVE  \/ i \in OpenEntries' /\ fds'[i].live_fd = n
                 \/ call'.op = "accepted" /\ call'.obj = fds'[i].obj
      <3>1. CASE i \in OpenEntries' /\ fds'[i] \in {e1, e2}
        BY <3>1, <2>3, <1>5, <1>11
      <3>2. ASSUME NEW k \in DOMAIN fds, fds'[i] = fds[k],
                   (i \in OpenEntries') <=> (k \in OpenEntries)
            PROVE  \/ i \in OpenEntries' /\ fds'[i].live_fd = n
                   \/ call'.op = "accepted" /\ call'.obj = fds'[i].obj
        <4>1. kernel[n] = fds[k].obj
          BY <3>2, <2>3, <1>11
        <4>2. QED
          BY <3>2, <4>1, <1>3 DEF Denotes
      <3>3. QED
        BY <2>1, <3>1, <3>2
    <2>4. QED
      BY <2>2, <2>3 DEF Denotes
  <1>16. Waits'
    <2>1. ASSUME waiting # 0, NEW n \in LiveFds
          PROVE  kernel'[n] # waiting
      BY <2>1, <1>11 DEF Waits
    <2>2. ASSUME waiting # 0, NEW i \in DOMAIN fds', fds'[i].obj = waiting
          PROVE  fds'[i].live_fd = -1
      <3>1. fds'[i] # e1 /\ fds'[i] # e2
        BY <2>2, <1>5
      <3>2. QED
        BY <2>2, <3>1, <1>9 DEF Waits
    <2>3. QED
      BY <2>1, <2>2, <1>3 DEF Waits
  <1>17. Accepted'
    <2>1. ASSUME call.op = "accepted", NEW n \in LiveFds
          PROVE  kernel'[n] = call.obj <=> n = call.live
      <3>1. kernel[n] = call.obj <=> n = call.live
        BY <2>1 DEF Accepted
      <3>2. call.obj \in Nat /\ call.obj # 0 /\ call.obj =< objects /\ objects \in Nat
        BY <2>1
      <3>3. CASE n \in {live1, live2}
        <4>1. kernel[n] # call.obj /\ kernel'[n] # call.obj
          BY <3>2, <3>3, <1>1, <1>11
        <4>2. QED
          BY <3>1, <4>1
      <3>4. CASE n \notin {live1, live2}
        BY <3>1, <3>4, <1>11
      <3>5. QED
        BY <3>3, <3>4
    <2>2. ASSUME call.op = "accepted", NEW i \in DOMAIN fds', fds'[i].obj = call.obj
          PROVE  fds'[i].live_fd = -1
      <3>1. call.obj =< objects /\ objects \in Nat /\ call.obj \in Nat
        BY <2>2
      <3>2. fds'[i] # e1 /\ fds'[i] # e2
        BY <2>2, <3>1, <1>5
      <3>3. QED
        BY <2>2, <3>2, <1>9 DEF Accepted
    <2>3. QED
      BY <2>1, <2>2, <1>3 DEF Accepted
  <1>18. Numbers'
    <2>1. \A n : KnownIn(fds', n) <=> (n \in {fd1, fd2} \/ KnownIn(fds, n))
      <3>1. \A n : KnownIn(list, n) <=> (n = fd1 \/ KnownIn(fds, n))
        BY <1>5, <1>6, <1>7, KnownPush
      <3>2. \A n : KnownIn(fds', n) <=> (n = fd2 \/ KnownIn(list, n))
        BY <1>5, <1>6, <1>7, KnownPush
      <3>3. QED
        BY <3>1, <3>2
    <2>2. QED
      BY <1>3, <1>12, <2>1 DEF Numbers
  <1>19. QED
    BY <1>13, <1>14, <1>15, <1>16, <1>17, <1>18

\* An entry that only changes its state.
LEMMA EntryMoves ==
  ASSUME TypeInv, NEW i \in DOMAIN fds, NEW st, fds' = [fds EXCEPT ![i].state = st]
  PROVE  /\ DOMAIN fds' = DOMAIN fds
         /\ \A j \in DOMAIN fds :
               /\ fds'[j].obj = fds[j].obj /\ fds'[j].script_fd = fds[j].script_fd
               /\ fds'[j].live_fd = fds[j].live_fd /\ fds'[j].is_closed = fds[j].is_closed
               /\ fds'[j].type = fds[j].type
               /\ fds'[j].state = IF j = i THEN st ELSE fds[j].state
  <1>1. PICK r \in Entries : r = fds[i]
    BY TypeInvParts DEF WellFormed
  <1>2. PICK e : e = [r EXCEPT !.state = st]
    OBVIOUS
  <1>3. /\ e.obj = r.obj /\ e.script_fd = r.script_fd /\ e.live_fd = r.live_fd
        /\ e.is_closed = r.is_closed /\ e.type = r.type /\ e.state = st
    BY <1>2 DEF Entries
  <1>4. fds' = [fds EXCEPT ![i] = e]
    BY <1>1, <1>2
  <1>5. DOMAIN fds' = DOMAIN fds /\ fds'[i] = e
        /\ \A j \in DOMAIN fds : j # i => fds'[j] = fds[j]
    BY <1>4
  <1>6. QED
    BY <1>1, <1>3, <1>5

\* What of an entry the kernel's table depends on.
SameNumbers ==
    /\ DOMAIN fds' = DOMAIN fds
    /\ \A j \in DOMAIN fds :
          /\ fds'[j].obj = fds[j].obj /\ fds'[j].script_fd = fds[j].script_fd
          /\ fds'[j].live_fd = fds[j].live_fd /\ fds'[j].is_closed = fds[j].is_closed

LEMMA SameNumbersKeep ==
  ASSUME SameNumbers, Distinct, Numbers, Denotes,
         UNCHANGED <<kernel, call>>
  PROVE  Distinct' /\ Numbers' /\ Denotes'
  <1>1. Distinct'
    BY DEF SameNumbers, Distinct, DistinctIn
  <1>2. Numbers'
    BY DEF SameNumbers, Numbers, KnownIn
  <1>3. OpenEntries' = OpenEntries
    BY DEF SameNumbers, OpenEntries, Closing
  <1>4. Denotes'
    <2>1. OpenEntries \subseteq DOMAIN fds
      BY DEF OpenEntries
    <2>2. QED
      BY <1>3, <2>1 DEF SameNumbers, Denotes
  <1>5. QED
    BY <1>1, <1>2, <1>4

\* listen().
LEMMA ListenPicture ==
  ASSUME TypeInv, Picture, NEW fd \in ScriptFds, Listen(fd)
  PROVE  Picture'
  <1>1. PICK i \in DOMAIN fds : fds' = [fds EXCEPT ![i].state = "listening"]
    BY FindFacts DEF Listen
  <1>2. SameNumbers
        /\ \A j \in DOMAIN fds : fds'[j].state = IF j = i THEN "listening" ELSE fds[j].state
    BY <1>1, EntryMoves DEF SameNumbers
  <1>3. UNCHANGED <<is_wire_client, kernel, waiting, call, objects>>
    BY DEF Listen, MainRuns
  <1>4. Distinct' /\ Numbers' /\ Denotes'
    BY <1>2, <1>3, SameNumbersKeep DEF Picture
  <1>5. Unaccepted'
    BY <1>2, <1>3 DEF Picture, Unaccepted, SameNumbers
  <1>6. Waits' /\ Accepted'
    BY <1>2, <1>3 DEF Picture, Waits, Accepted, SameNumbers
  <1>7. QED
    BY <1>4, <1>5, <1>6 DEF Picture

\* The ACK of the handshake comes in, and the connection waits.
LEMMA HandshakeDonePicture ==
  ASSUME TypeInv, Picture, HandshakeDone
  PROVE  Picture'
  <1>1. PICK i \in DOMAIN fds : /\ fds[i].obj = underTest
                                /\ fds[i].state = "packet_received"
                                /\ fds' = [fds EXCEPT ![i].state = "synack_acked"]
    BY DEF HandshakeDone
  <1>2. SameNumbers
        /\ \A j \in DOMAIN fds :
              fds'[j].state = IF j = i THEN "synack_acked" ELSE fds[j].state
    BY <1>1, EntryMoves DEF SameNumbers
  <1>3. /\ UNCHANGED <<is_wire_client, kernel, call, objects>>
        /\ waiting' = fds[i].obj
    BY <1>1 DEF HandshakeDone, MainRuns
  <1>4. Distinct' /\ Numbers' /\ Denotes'
    BY <1>2, <1>3, SameNumbersKeep DEF Picture
  <1>5. /\ fds[i].live_fd = -1
        /\ call.op = "accepted" => fds[i].obj # call.obj
    BY <1>1 DEF Picture, Unaccepted
  <1>6. \A j \in DOMAIN fds : fds[j].obj = fds[i].obj => j = i
    BY DEF Picture, Distinct, DistinctIn
  <1>7. Unaccepted'
    BY <1>2, <1>3, <1>6 DEF Picture, Unaccepted, SameNumbers
  <1>8. Waits'
    <2>1. \A n \in LiveFds : kernel[n] # fds[i].obj
      BY <1>5, PlainFacts DEF Picture, Denotes
    <2>2. QED
      BY <1>2, <1>3, <1>5, <1>6, <2>1 DEF Waits, SameNumbers
  <1>9. Accepted'
    BY <1>2, <1>3, <1>5 DEF Picture, Accepted, SameNumbers
  <1>10. QED
    BY <1>4, <1>7, <1>8, <1>9 DEF Picture

\* A connection that the wire client has not seen waits.
LEMMA RemoteConnectsPicture ==
  ASSUME TypeInv, Picture, RemoteConnects
  PROVE  Picture'
  <1>1. /\ UNCHANGED <<is_wire_client, fds, kernel, call>>
        /\ waiting' = objects + 1 /\ is_wire_client
    BY DEF RemoteConnects, MainRuns
  <1>2. SameNumbers
    BY <1>1 DEF SameNumbers
  <1>3. Distinct' /\ Numbers' /\ Denotes'
    BY <1>1, <1>2, SameNumbersKeep DEF Picture
  <1>4. Unaccepted'
    BY <1>1, PlainFacts DEF Picture, Unaccepted
  <1>5. Waits'
    BY <1>1, PlainFacts DEF Waits
  <1>6. Accepted'
    BY <1>1, PlainFacts DEF Picture, Accepted
  <1>7. QED
    BY <1>3, <1>4, <1>5, <1>6 DEF Picture

\* A blocking accept() begins.
LEMMA BeginAcceptPicture ==
  ASSUME TypeInv, Picture, CarefulScripts,
         NEW listening \in ScriptFds, NEW fd \in ScriptFds, BeginAccept(listening, fd)
  PROVE  Picture'
  <1>1. /\ UNCHANGED <<is_wire_client, fds, kernel, waiting, objects>>
        /\ call.op = "none" /\ call'.op = "accept" /\ call'.fd = fd
        /\ ~KnownIn(fds, fd)
    BY KnownIsKnown DEF BeginAccept, MainRuns, NoCall
  <1>2. OpenEntries' = OpenEntries
    BY <1>1 DEF OpenEntries, Closing
  <1> USE DEF Picture
  <1>3. Distinct' /\ Unaccepted' /\ Waits' /\ Accepted'
    BY <1>1 DEF Distinct, Unaccepted, Waits, Accepted
  <1>4. Denotes'
    BY <1>1, <1>2 DEF Denotes
  <1>5. Numbers'
    BY <1>1 DEF Numbers
  <1>6. QED
    BY <1>3, <1>4, <1>5

\* It is given the connection that waits.
LEMMA AcceptReturnsPicture ==
  ASSUME TypeInv, Picture, AcceptReturns
  PROVE  Picture'
  <1>1. PICK live \in LiveFds : live = NewFd /\ kernel[live] = 0
    BY NewFdFacts DEF AcceptReturns
  <1>2. /\ UNCHANGED <<is_wire_client, fds, objects>>
        /\ call.op = "accept" /\ waiting # 0 /\ waiting' = 0
        /\ kernel' = [kernel EXCEPT ![live] = waiting]
        /\ call' = [op |-> "accepted", fd |-> call.fd, live |-> live, obj |-> waiting]
    BY <1>1, TypeInvParts DEF AcceptReturns, ThreadRuns, Scalars
  <1>3. \A n \in LiveFds : kernel'[n] = IF n = live THEN waiting ELSE kernel[n]
    BY <1>2, TypeInvParts DEF Scalars
  <1>4. /\ call'.op = "accepted" /\ call'.fd = call.fd /\ call'.live = live
        /\ call'.obj = waiting
    BY <1>2
  <1>5. OpenEntries' = OpenEntries
    BY <1>2, <1>4 DEF OpenEntries, Closing
  <1> USE PlainFacts DEF Picture
  <1>6. Distinct' /\ Waits'
    BY <1>2 DEF Distinct, Waits
  <1>7. Unaccepted'
    BY <1>2, <1>4 DEF Unaccepted
  <1>8. Denotes'
    BY <1>1, <1>2, <1>3, <1>4, <1>5 DEF Denotes, OpenEntries
  <1>9. Accepted'
    BY <1>1, <1>2, <1>3, <1>4 DEF Accepted, Waits
  <1>10. Numbers'
    BY <1>2, <1>4 DEF Numbers
  <1>11. QED
    BY <1>6, <1>7, <1>8, <1>9, <1>10

-----------------------------------------------------------------------------
(* Closing.                                                                *)

\* The entry of a descriptor that a script closes denotes an object: close()
\* does not fail.
LEMMA ClosedEntry ==
  ASSUME TypeInv, Picture, NEW fd \in ScriptFds, Known(fd), ~Closing(fd)
  PROVE  \E i \in OpenEntries :
            /\ i = FindByScriptFd(fd) /\ fds[i].script_fd = fd
            /\ fds[i].live_fd = ToLiveFd(fd) /\ fds[i].live_fd \in LiveFds
            /\ kernel[fds[i].live_fd] = fds[i].obj /\ fds[i].obj # 0
  <1>1. FindByScriptFd(fd) \in OpenEntries
    BY FindFacts, PlainFacts DEF OpenEntries, Closing
  <1>2. QED
    BY <1>1, FindFacts, PlainFacts DEF Picture, Denotes

\* An entry that is marked closed.
LEMMA EntryCloses ==
  ASSUME TypeInv, NEW i \in DOMAIN fds, fds' = [fds EXCEPT ![i].is_closed = TRUE]
  PROVE  /\ DOMAIN fds' = DOMAIN fds
         /\ \A j \in DOMAIN fds :
               /\ fds'[j].obj = fds[j].obj /\ fds'[j].script_fd = fds[j].script_fd
               /\ fds'[j].live_fd = fds[j].live_fd /\ fds'[j].state = fds[j].state
               /\ fds'[j].is_closed <=> (j = i \/ fds[j].is_closed)
  <1>1. PICK r \in Entries : r = fds[i]
    BY TypeInvParts DEF WellFormed
  <1>2. PICK e : e = [r EXCEPT !.is_closed = TRUE]
    OBVIOUS
  <1>3. /\ e.obj = r.obj /\ e.script_fd = r.script_fd /\ e.live_fd = r.live_fd
        /\ e.is_closed /\ e.state = r.state
    BY <1>2 DEF Entries
  <1>4. fds' = [fds EXCEPT ![i] = e]
    BY <1>1, <1>2
  <1>5. DOMAIN fds' = DOMAIN fds /\ fds'[i] = e
        /\ \A j \in DOMAIN fds : j # i => fds'[j] = fds[j]
    BY <1>4
  <1>6. QED
    BY <1>1, <1>3, <1>5

\* A descriptor is freed, and a connection that waits may go with it.
LEMMA Freed ==
  ASSUME TypeInv, NEW live \in LiveFds, FreeLive(live)
  PROVE  /\ \A n \in LiveFds : kernel'[n] = IF n = live THEN 0 ELSE kernel[n]
         /\ waiting' \in {0, waiting}
  BY TypeInvParts DEF FreeLive, Scalars

\* close() on the interpreter's thread.
LEMMA ClosePicture ==
  ASSUME TypeInv, Picture, CarefulScripts, NEW fd \in ScriptFds, Close(fd)
  PROVE  Picture' /\ run' = run
  <1>1. PICK i \in OpenEntries :
          /\ i = FindByScriptFd(fd) /\ fds[i].script_fd = fd
          /\ fds[i].live_fd = ToLiveFd(fd) /\ fds[i].live_fd \in LiveFds
          /\ kernel[fds[i].live_fd] = fds[i].obj /\ fds[i].obj # 0
    BY ClosedEntry DEF Close
  <1>2. PICK live \in LiveFds : live = fds[i].live_fd /\ live = ToLiveFd(fd)
    BY <1>1
  <1>3. i \in DOMAIN fds /\ ~fds[i].is_closed
    BY DEF OpenEntries
  <1>4. /\ fds' = [fds EXCEPT ![i].is_closed = TRUE] /\ run' = run
        /\ UNCHANGED <<is_wire_client, call, objects>>
        /\ FreeLive(live) /\ ~Closing(fd)
    BY <1>1, <1>2 DEF Close, MarkClosed, MainRuns
  <1>5. /\ DOMAIN fds' = DOMAIN fds
        /\ \A j \in DOMAIN fds :
               /\ fds'[j].obj = fds[j].obj /\ fds'[j].script_fd = fds[j].script_fd
               /\ fds'[j].live_fd = fds[j].live_fd /\ fds'[j].state = fds[j].state
               /\ fds'[j].is_closed <=> (j = i \/ fds[j].is_closed)
    BY <1>3, <1>4, EntryCloses
  <1>6. /\ \A n \in LiveFds : kernel'[n] = IF n = live THEN 0 ELSE kernel[n]
        /\ waiting' \in {0, waiting}
    BY <1>4, Freed
  <1>7. \A j \in DOMAIN fds : fds[j].obj = fds[i].obj => j = i
    BY <1>3 DEF Picture, Distinct, DistinctIn
  <1>8. OpenEntries' = OpenEntries \ {i}
    BY <1>4, <1>5 DEF OpenEntries, Closing
  <1> USE PlainFacts DEF Picture
  <1>9. Distinct'
    BY <1>5 DEF Distinct, DistinctIn
  <1>10. Unaccepted'
    BY <1>1, <1>4, <1>5, <1>6 DEF Unaccepted, LiveFds
  <1>11. Denotes'
    <2>1. ASSUME NEW j \in OpenEntries'
          PROVE  kernel'[fds'[j].live_fd] = fds'[j].obj
      <3>1. j \in OpenEntries /\ j # i /\ j \in DOMAIN fds
        BY <1>8, <2>1 DEF OpenEntries
      <3>2. /\ kernel[fds[j].live_fd] = fds[j].obj
            /\ fds[j].live_fd \in LiveFds
        BY <3>1 DEF Denotes, OpenEntries
      <3>3. fds[j].live_fd # live
        BY <1>1, <1>2, <1>7, <3>1, <3>2
      <3>4. QED
        BY <1>5, <1>6, <3>1, <3>2, <3>3
    <2>2. ASSUME NEW j \in DOMAIN fds, NEW n \in LiveFds, kernel'[n] = fds[j].obj
          PROVE  \/ j \in OpenEntries' /\ fds[j].live_fd = n
                 \/ call.op = "accepted" /\ call.obj = fds[j].obj
      <3>1. n # live /\ kernel[n] = fds[j].obj
        BY <1>6, <2>2
      <3>2. \/ j \in OpenEntries /\ fds[j].live_fd = n
            \/ call.op = "accepted" /\ call.obj = fds[j].obj
        BY <3>1 DEF Denotes
      <3>3. QED
        BY <1>2, <1>8, <3>1, <3>2
    <2>3. QED
      BY <1>4, <1>5, <2>1, <2>2 DEF Denotes
  <1>12. Waits'
    BY <1>4, <1>5, <1>6 DEF Waits
  <1>13. Accepted'
    <2>1. call.op = "accepted" => call.live # live
      BY <1>1, <1>2, <1>3 DEF Accepted
    <2>2. QED
      BY <2>1, <1>4, <1>5, <1>6 DEF Accepted
  <1>14. Numbers'
    <2>1. \A n : KnownIn(fds', n) => KnownIn(fds, n)
      BY <1>5 DEF KnownIn
    <2>2. \A n : n # fd /\ KnownIn(fds, n) => KnownIn(fds', n)
      BY <1>1, <1>5 DEF KnownIn
    <2>3. QED
      BY <1>4, <2>1, <2>2 DEF Numbers, Closing
  <1>15. QED
    BY <1>4, <1>9, <1>10, <1>11, <1>12, <1>13, <1>14

\* A blocking close() begins: its entry has lost its descriptor.
LEMMA BeginClosePicture ==
  ASSUME TypeInv, Picture, NEW fd \in ScriptFds, BeginClose(fd)
  PROVE  Picture' /\ run' = run
  <1>0. call.op = "none" /\ ~Closing(fd)
    BY DEF BeginClose, NoCall, Closing
  <1>1. PICK i \in OpenEntries :
          /\ i = FindByScriptFd(fd) /\ fds[i].script_fd = fd
          /\ fds[i].live_fd = ToLiveFd(fd) /\ fds[i].live_fd \in LiveFds
          /\ kernel[fds[i].live_fd] = fds[i].obj /\ fds[i].obj # 0
    BY <1>0, ClosedEntry DEF BeginClose
  <1>2. PICK live \in LiveFds : live = fds[i].live_fd /\ live = ToLiveFd(fd)
    BY <1>1
  <1>3. i \in DOMAIN fds /\ ~fds[i].is_closed
    BY DEF OpenEntries
  <1>4. /\ UNCHANGED <<is_wire_client, fds, objects, run>>
        /\ call'.op = "close" /\ call'.fd = fd /\ FreeLive(live)
    BY <1>1, <1>2 DEF BeginClose, MainRuns, NoCall
  <1>5. /\ \A n \in LiveFds : kernel'[n] = IF n = live THEN 0 ELSE kernel[n]
        /\ waiting' \in {0, waiting}
    BY <1>4, Freed
  <1>6. \A j \in DOMAIN fds : fds[j].obj = fds[i].obj => j = i
    BY <1>3 DEF Picture, Distinct, DistinctIn
  <1>7. OpenEntries' = OpenEntries \ {i}
    <2>1. \A j \in DOMAIN fds : ~fds[j].is_closed /\ fds[j].script_fd = fd => j = i
      BY <1>1, <1>3 DEF Picture, Distinct, DistinctIn
    <2>2. QED
      BY <1>0, <1>1, <1>3, <1>4, <2>1 DEF OpenEntries, Closing
  <1> USE PlainFacts DEF Picture
  <1>8. Distinct' /\ Unaccepted' /\ Waits' /\ Accepted'
    BY <1>0, <1>4, <1>5 DEF Distinct, Unaccepted, Waits, Accepted
  <1>9. Denotes'
    <2>1. ASSUME NEW j \in OpenEntries'
          PROVE  kernel'[fds[j].live_fd] = fds[j].obj
      <3>1. j \in OpenEntries /\ j # i /\ j \in DOMAIN fds
        BY <1>7, <2>1 DEF OpenEntries
      <3>2. /\ kernel[fds[j].live_fd] = fds[j].obj
            /\ fds[j].live_fd \in LiveFds
        BY <3>1 DEF Denotes, OpenEntries
      <3>3. fds[j].live_fd # live
        BY <1>1, <1>2, <1>6, <3>1, <3>2
      <3>4. QED
        BY <1>5, <3>1, <3>2, <3>3
    <2>2. ASSUME NEW j \in DOMAIN fds, NEW n \in LiveFds, kernel'[n] = fds[j].obj
          PROVE  j \in OpenEntries' /\ fds[j].live_fd = n
      <3>1. n # live /\ kernel[n] = fds[j].obj
        BY <1>5, <2>2
      <3>2. j \in OpenEntries /\ fds[j].live_fd = n
        BY <1>0, <3>1 DEF Denotes
      <3>3. QED
        BY <1>2, <1>7, <3>1, <3>2
    <2>3. QED
      BY <1>4, <2>1, <2>2 DEF Denotes
  <1>10. Numbers'
    BY <1>1, <1>3, <1>4 DEF Numbers, KnownIn
  <1>11. QED
    BY <1>4, <1>8, <1>9, <1>10

\* It ends, and its entry is marked.
LEMMA EndClosePicture ==
  ASSUME TypeInv, Picture, EndClose, run' = "on"
  PROVE  Picture'
  <1>1. call.op = "close" /\ call.fd \in ScriptFds /\ Known(call.fd)
        /\ call'.op = "none"
        /\ UNCHANGED <<is_wire_client, kernel, waiting, objects>>
    BY PlainFacts DEF EndClose, ThreadRuns, NoCall
  <1>2. PICK i \in DOMAIN fds :
          /\ ~fds[i].is_closed /\ fds[i].script_fd = call.fd /\ fds[i].live_fd \in LiveFds
          /\ fds' = [fds EXCEPT ![i].is_closed = TRUE]
    BY <1>1, FindFacts DEF EndClose, MarkClosed
  <1>3. /\ DOMAIN fds' = DOMAIN fds
        /\ \A j \in DOMAIN fds :
               /\ fds'[j].obj = fds[j].obj /\ fds'[j].script_fd = fds[j].script_fd
               /\ fds'[j].live_fd = fds[j].live_fd /\ fds'[j].state = fds[j].state
               /\ fds'[j].is_closed <=> (j = i \/ fds[j].is_closed)
    BY <1>2, EntryCloses
  <1>4. OpenEntries' = OpenEntries
    <2>1. \A j \in DOMAIN fds : ~fds[j].is_closed /\ fds[j].script_fd = call.fd => j = i
      BY <1>1, <1>2 DEF Picture, Distinct, DistinctIn
    <2>2. QED
      BY <1>1, <1>2, <1>3, <2>1 DEF OpenEntries, Closing
  <1> USE PlainFacts DEF Picture
  <1>5. Distinct'
    BY <1>3 DEF Distinct, DistinctIn
  <1>6. Unaccepted' /\ Waits' /\ Accepted' /\ Numbers'
    BY <1>1, <1>2, <1>3 DEF Unaccepted, Waits, Accepted, Numbers, LiveFds
  <1>7. Denotes'
    BY <1>1, <1>3, <1>4 DEF Denotes, OpenEntries
  <1>8. QED
    BY <1>5, <1>6, <1>7

-----------------------------------------------------------------------------
(* Accepting.                                                              *)

\* What run_syscall_accept() is called with: a connection without an entry of
\* its own in the list, at a live descriptor, and a number that is free.  It is
\* what accept() returned at once, or to the thread that waited.
Recording(fd, live, conn) ==
    /\ RecordAccept(fd, live, conn) /\ ~KnownIn(fds, fd)
    /\ \A i \in DOMAIN fds : fds[i].obj = conn => fds[i].live_fd = -1
    /\ \A n \in LiveFds : kernel'[n] = IF n = live THEN conn ELSE kernel[n]
    /\ \A n \in LiveFds : n # live => kernel[n] # conn
    /\ kernel[live] \in {0, conn}
    /\ waiting' \in {0, waiting} /\ waiting' # conn
    /\ UNCHANGED <<is_wire_client, objects>>
    /\ \/ /\ call' = call
          /\ call.op # "none" => call.fd # fd
          /\ call.op = "accepted" => call.obj # conn
       \/ call'.op = "none" /\ call.op = "accepted" /\ call.obj = conn

\* What that means for the list and for calls in progress.
Recorded(fd, live, conn) ==
    /\ \A n : Closing(n)' <=> Closing(n)
    /\ call'.op = "accepted" =>
          /\ call.op = "accepted" /\ call'.obj = call.obj /\ call'.live = call.live
          /\ call.obj # conn
    /\ call.op = "accepted" =>
          call.obj = conn \/ (call'.op = "accepted" /\ call'.obj = call.obj)
    /\ call'.op # "none" => call'.op = call.op /\ call'.fd = call.fd /\ call.fd # fd
    /\ \A i \in DOMAIN fds : ~fds[i].is_closed => fds[i].script_fd # fd
    /\ \A i \in DOMAIN fds : fds[i].obj = conn => fds[i].live_fd = -1
    /\ \A n \in LiveFds : kernel'[n] = IF n = live THEN conn ELSE kernel[n]
    /\ \A n \in LiveFds : n # live => kernel[n] # conn
    /\ kernel[live] = 0 \/ kernel[live] = conn
    /\ waiting' = 0 \/ waiting' = waiting
    /\ waiting' # conn
    /\ is_wire_client' = is_wire_client /\ objects' = objects

LEMMA RecordingFacts ==
  ASSUME NEW fd, NEW live, NEW conn, Recording(fd, live, conn)
  PROVE  Recorded(fd, live, conn)
  <1>1. /\ \A i \in DOMAIN fds : ~fds[i].is_closed => fds[i].script_fd # fd
        /\ \A i \in DOMAIN fds : fds[i].obj = conn => fds[i].live_fd = -1
        /\ \A n \in LiveFds : kernel'[n] = IF n = live THEN conn ELSE kernel[n]
        /\ \A n \in LiveFds : n # live => kernel[n] # conn
        /\ kernel[live] = 0 \/ kernel[live] = conn
        /\ waiting' = 0 \/ waiting' = waiting
        /\ waiting' # conn
        /\ is_wire_client' = is_wire_client /\ objects' = objects
    BY DEF Recording, KnownIn
  <1>2. CASE call' = call /\ (call.op # "none" => call.fd # fd)
             /\ (call.op = "accepted" => call.obj # conn)
    BY <1>1, <1>2 DEF Recorded, Closing
  <1>3. CASE call'.op = "none" /\ call.op = "accepted" /\ call.obj = conn
    BY <1>1, <1>3 DEF Recorded, Closing
  <1>4. QED
    BY <1>2, <1>3 DEF Recording

\* The child of the listening socket gets its numbers.
Renumbered(c, fd, live) ==
    /\ DOMAIN fds' = DOMAIN fds
    /\ \A j \in DOMAIN fds :
           /\ fds'[j].obj = fds[j].obj /\ fds'[j].state = fds[j].state
           /\ fds'[j].is_closed = fds[j].is_closed
           /\ fds'[j].script_fd = IF j = c THEN fd ELSE fds[j].script_fd
           /\ fds'[j].live_fd = IF j = c THEN live ELSE fds[j].live_fd

LEMMA ChildRenumbered ==
  ASSUME TypeInv, NEW fd, NEW live, NEW c \in DOMAIN fds,
         fds' = [fds EXCEPT ![c].script_fd = fd, ![c].live_fd = live]
  PROVE  Renumbered(c, fd, live)
  <1>1. PICK r \in Entries : r = fds[c]
    BY TypeInvParts DEF WellFormed
  <1>2. PICK e : e = [r EXCEPT !.script_fd = fd, !.live_fd = live]
    OBVIOUS
  <1>3. /\ e.obj = r.obj /\ e.script_fd = fd /\ e.live_fd = live
        /\ e.is_closed = r.is_closed /\ e.state = r.state
    BY <1>2 DEF Entries
  <1>4. fds' = [fds EXCEPT ![c] = e]
    BY <1>1, <1>2
  <1>5. DOMAIN fds' = DOMAIN fds /\ fds'[c] = e
        /\ \A j \in DOMAIN fds : j # c => fds'[j] = fds[j]
    BY <1>4
  <1>6. QED
    BY <1>1, <1>3, <1>5 DEF Renumbered

LEMMA ChildPicture ==
  ASSUME TypeInv, Picture, NEW fd \in ScriptFds, NEW live \in LiveFds,
         NEW conn \in 1 .. objects, Recorded(fd, live, conn),
         NEW c \in DOMAIN fds, fds[c].obj = conn, fds[c].state = "synack_acked",
         Renumbered(c, fd, live)
  PROVE  Picture'
  <1>0. conn # 0 /\ conn \in Nat /\ live \in Nat
    BY PlainFacts
  <1>1. Renumbered(c, fd, live)
    OBVIOUS
  <1> USE PlainFacts DEF Picture, Recorded, Renumbered
  <1>2. /\ fds[c].live_fd = -1 /\ fds[c].script_fd = -1 /\ ~fds[c].is_closed
    BY DEF Unaccepted, LiveFds
  <1>3. \A j \in DOMAIN fds : fds[j].obj = conn => j = c
    BY DEF Distinct, DistinctIn
  <1>4. \A j \in DOMAIN fds : ~fds[j].is_closed => fds[j].script_fd # fd
    BY DEF KnownIn
  <1>5. /\ c \notin OpenEntries /\ c \in OpenEntries'
        /\ \A j \in DOMAIN fds : j # c => ((j \in OpenEntries') <=> (j \in OpenEntries))
    <2>1. c \notin OpenEntries
      BY <1>2 DEF OpenEntries
    <2>2. c \in OpenEntries'
      BY <1>0, <1>2 DEF OpenEntries, Closing
    <2>3. ASSUME NEW j \in DOMAIN fds, j # c
          PROVE  (j \in OpenEntries') <=> (j \in OpenEntries)
      BY <2>3 DEF OpenEntries, Closing
    <2>4. QED
      BY <2>1, <2>2, <2>3
  <1>6. Distinct'
    BY <1>1, <1>4 DEF Distinct, DistinctIn
  <1>7. Unaccepted'
    BY <1>1 DEF Unaccepted, LiveFds
  <1>8. Denotes'
    <2>1. ASSUME NEW j \in OpenEntries'
          PROVE  kernel'[fds'[j].live_fd] = fds'[j].obj
      <3>1. j \in DOMAIN fds
        BY <1>1, <2>1 DEF OpenEntries
      <3>2. CASE j = c
        BY <1>1, <3>2
      <3>3. CASE j # c
        <4>1. /\ kernel[fds[j].live_fd] = fds[j].obj
              /\ fds[j].live_fd \in LiveFds /\ fds[j].obj # conn /\ fds[j].obj # 0
          BY <1>3, <1>5, <3>1, <3>3 DEF Denotes, OpenEntries
        <4>2. QED
          BY <1>1, <3>1, <3>3, <4>1
      <3>4. QED
        BY <3>2, <3>3
    <2>2. ASSUME NEW j \in DOMAIN fds, NEW n \in LiveFds, kernel'[n] = fds'[j].obj
          PROVE  \/ j \in OpenEntries' /\ fds'[j].live_fd = n
                 \/ call'.op = "accepted" /\ call'.obj = fds'[j].obj
      <3>1. CASE j = c
        BY <1>1, <1>5, <2>2, <3>1
      <3>2. CASE j # c
        <4>1. fds[j].obj # conn /\ n # live /\ kernel[n] = fds[j].obj
          BY <1>1, <1>3, <2>2, <3>2
        <4>2. QED
          BY <1>1, <1>5, <3>2, <4>1 DEF Denotes
      <3>3. QED
        BY <3>1, <3>2
    <2>3. QED
      BY <1>1, <2>1, <2>2 DEF Denotes
  <1>9. Waits'
    BY <1>1 DEF Waits
  <1>10. Accepted'
    BY <1>1 DEF Accepted
  <1>11. Numbers'
    <2>1. \A n \in ScriptFds : KnownIn(fds', n) <=> (n = fd \/ KnownIn(fds, n))
      BY <1>1, <1>2 DEF KnownIn
    <2>2. QED
      BY <2>1 DEF Numbers
  <1>12. QED
    BY <1>6, <1>7, <1>8, <1>9, <1>10, <1>11

\* A wire client makes a new entry.
LEMMA WirePicture ==
  ASSUME TypeInv, Picture, NEW fd \in ScriptFds, NEW live \in LiveFds,
         NEW conn \in 1 .. objects, Recorded(fd, live, conn), is_wire_client,
         fds' = <<Entry("socket", "init", fd, live, conn)>> \o fds
  PROVE  Picture'
  <1>1. PICK e \in Entries : e = Entry("socket", "init", fd, live, conn)
    <2>1. /\ live \in Int /\ fd \in Int /\ conn \in Nat
      BY PlainFacts, NumbersAssumption
    <2>2. Entry("socket", "init", fd, live, conn) \in Entries
      BY <2>1 DEF Entry, Entries
    <2>3. QED
      BY <2>2
  <1>2. /\ e.state = "init" /\ e.script_fd = fd /\ e.live_fd = live
        /\ e.obj = conn /\ ~e.is_closed
    BY <1>1 DEF Entry
  <1>3. fds \in Seq(Entries) /\ fds' = <<e>> \o fds
    BY <1>1, TypeInvParts
  <1>4. PICK len \in Nat : IsPushed(fds, e, fds', len)
    BY <1>3, Pushed
  <1> USE PlainFacts DEF Picture, IsPushed, Recorded
  <1>5. \A k \in DOMAIN fds : fds[k].obj # conn /\ fds[k].live_fd \in LiveFds
    BY DEF Unaccepted
  <1>6. /\ 1 \in OpenEntries'
        /\ \A j \in DOMAIN fds' : j # 1 => ((j \in OpenEntries') <=> (j - 1 \in OpenEntries))
    <2>1. live >= 0 /\ 1 \in DOMAIN fds' /\ fds'[1] = e
      BY <1>4
    <2>2. 1 \in OpenEntries'
      BY <1>2, <2>1 DEF OpenEntries, Closing
    <2>3. ASSUME NEW j \in DOMAIN fds', j # 1
          PROVE  (j \in OpenEntries') <=> (j - 1 \in OpenEntries)
      <3>1. j - 1 \in DOMAIN fds /\ fds'[j] = fds[j - 1]
        BY <1>4, <2>3
      <3>2. QED
        BY <3>1 DEF OpenEntries, Closing
    <2>4. QED
      BY <2>2, <2>3
  <1>7. Distinct'
    <2>1. ~KnownIn(fds, e.script_fd) /\ \A k \in DOMAIN fds : fds[k].obj # e.obj
      BY <1>2, <1>5 DEF KnownIn
    <2>2. QED
      BY <1>3, <2>1, DistinctPush DEF Distinct
  <1>8. Unaccepted'
    BY <1>2, <1>4 DEF Unaccepted, LiveFds
  <1>9. Denotes'
    <2>1. ASSUME NEW j \in OpenEntries'
          PROVE  kernel'[fds'[j].live_fd] = fds'[j].obj
      <3>1. j \in DOMAIN fds'
        BY <2>1 DEF OpenEntries
      <3>2. CASE j = 1
        BY <1>2, <1>4, <3>2
      <3>3. CASE j # 1
        <4>1. j - 1 \in OpenEntries /\ j - 1 \in DOMAIN fds /\ fds'[j] = fds[j - 1]
          BY <1>4, <1>6, <2>1, <3>1, <3>3
        <4>2. /\ kernel[fds[j - 1].live_fd] = fds[j - 1].obj
              /\ fds[j - 1].live_fd \in LiveFds /\ fds[j - 1].obj # conn /\ fds[j - 1].obj # 0
          BY <1>5, <4>1 DEF Denotes
        <4>3. QED
          BY <4>1, <4>2
      <3>4. QED
        BY <3>2, <3>3
    <2>2. ASSUME NEW j \in DOMAIN fds', NEW n \in LiveFds, kernel'[n] = fds'[j].obj
          PROVE  \/ j \in OpenEntries' /\ fds'[j].live_fd = n
                 \/ call'.op = "accepted" /\ call'.obj = fds'[j].obj
      <3>1. CASE j = 1
        BY <1>2, <1>4, <1>6, <2>2, <3>1
      <3>2. CASE j # 1
        <4>1. j - 1 \in DOMAIN fds /\ fds'[j] = fds[j - 1]
          BY <1>4, <3>2
        <4>2. fds[j - 1].obj # conn /\ n # live /\ kernel[n] = fds[j - 1].obj
          BY <1>5, <2>2, <4>1
        <4>3. QED
          BY <1>6, <3>2, <4>1, <4>2 DEF Denotes
      <3>3. QED
        BY <3>1, <3>2
    <2>3. QED
      BY <2>1, <2>2 DEF Denotes
  <1>10. Waits'
    <2>1. ASSUME waiting # 0, waiting' = waiting, NEW j \in DOMAIN fds', fds'[j].obj = waiting
          PROVE  fds'[j].live_fd = -1
      BY <1>2, <1>4, <2>1 DEF Waits
    <2>2. ASSUME waiting # 0, waiting' = waiting, NEW n \in LiveFds
          PROVE  kernel'[n] # waiting
      BY <2>2 DEF Waits
    <2>3. QED
      BY <2>1, <2>2 DEF Waits
  <1>11. Accepted'
    <2>1. ASSUME call'.op = "accepted"
          PROVE  /\ call.op = "accepted" /\ call'.obj = call.obj
                 /\ call'.live = call.live /\ call.obj # conn
      BY <2>1
    <2>2. ASSUME call'.op = "accepted", NEW n \in LiveFds
          PROVE  kernel'[n] = call.obj <=> n = call.live
      <3>1. kernel'[n] = (IF n = live THEN conn ELSE kernel[n])
        BY DEF Recorded
      <3>2. \A m \in LiveFds : kernel[m] = call.obj <=> m = call.live
        BY <2>1, <2>2 DEF Accepted
      <3>3. kernel[live] # call.obj
        BY <2>1, <2>2
      <3>4. QED
        BY <2>1, <2>2, <3>1, <3>2, <3>3
    <2>3. ASSUME call'.op = "accepted", NEW i \in DOMAIN fds', fds'[i].obj = call.obj
          PROVE  fds'[i].live_fd = -1
      <3>1. i # 1
        BY <2>1, <2>3, <1>2, <1>4
      <3>2. i - 1 \in DOMAIN fds /\ fds'[i] = fds[i - 1]
        BY <3>1, <2>3, <1>4
      <3>3. QED
        BY <2>1, <2>3, <3>2 DEF Accepted
    <2>4. call'.op = "accepted" => call'.obj # waiting'
      BY <2>1 DEF Accepted
    <2>5. QED
      BY <2>1, <2>2, <2>3, <2>4 DEF Accepted
  <1>12. Numbers'
    <2>1. \A n : KnownIn(fds', n) <=> (n = fd \/ KnownIn(fds, n))
      BY <1>2, <1>3, KnownPush
    <2>2. QED
      BY <2>1 DEF Numbers
  <1>13. QED
    BY <1>7, <1>8, <1>9, <1>10, <1>11, <1>12

LEMMA RecordPicture ==
  ASSUME TypeInv, Picture, NEW fd \in ScriptFds, NEW live \in LiveFds,
         NEW conn \in 1 .. objects, Recording(fd, live, conn), run' = "on"
  PROVE  Picture'
  <1>0. Recorded(fd, live, conn)
    BY RecordingFacts
  <1>1. CASE /\ Children # {} /\ fds[AcceptedChild].obj = conn
             /\ fds' = [fds EXCEPT ![AcceptedChild].script_fd = fd,
                                   ![AcceptedChild].live_fd = live]
    <2>1. AcceptedChild \in DOMAIN fds /\ fds[AcceptedChild].state = "synack_acked"
      BY <1>1, ChildFacts
    <2>2. Renumbered(AcceptedChild, fd, live)
      BY <1>1, <2>1, ChildRenumbered
    <2>3. QED
      BY <1>0, <1>1, <2>1, <2>2, ChildPicture
  <1>2. CASE /\ is_wire_client
             /\ fds' = <<Entry("socket", "init", fd, live, conn)>> \o fds
    BY <1>0, <1>2, WirePicture
  <1>3. QED
    BY <1>1, <1>2 DEF Recording, RecordAccept

\* accept() of a connection that is there.
LEMMA AcceptPicture ==
  ASSUME TypeInv, Picture, CarefulScripts,
         NEW listening \in ScriptFds, NEW fd \in ScriptFds, Accept(listening, fd),
         run' = "on"
  PROVE  Picture'
  <1>1. PICK live \in LiveFds : live = NewFd /\ kernel[live] = 0
    BY NewFdFacts DEF Accept
  <1>2. PICK conn \in 1 .. objects : conn = waiting
    BY PlainFacts DEF Accept
  <1>3. /\ RecordAccept(fd, live, conn) /\ ~KnownIn(fds, fd) /\ ~Reserved(fd)
        /\ kernel' = [kernel EXCEPT ![live] = conn] /\ waiting' = 0
        /\ UNCHANGED <<is_wire_client, objects, call>>
    BY <1>1, <1>2, KnownIsKnown DEF Accept, MainRuns
  <1>4. \A n \in LiveFds : kernel'[n] = IF n = live THEN conn ELSE kernel[n]
    BY <1>3, TypeInvParts DEF Scalars
  <1>5. call.op # "none" => call.fd # fd
    BY <1>3, TypeInvParts DEF Reserved, Picture, Numbers, Scalars
  <1>6. Recording(fd, live, conn)
    BY <1>1, <1>2, <1>3, <1>4, <1>5 DEF Recording, Picture, Waits, Accepted
  <1>7. QED
    BY <1>6, RecordPicture

\* A blocking accept() ends.
LEMMA EndAcceptPicture ==
  ASSUME TypeInv, Picture, EndAccept, run' = "on"
  PROVE  Picture'
  <1>1. PICK fd \in ScriptFds, live \in LiveFds, conn \in 1 .. objects :
          fd = call.fd /\ live = call.live /\ conn = call.obj
    BY TypeInvParts DEF Scalars, EndAccept
  <1>2. /\ RecordAccept(fd, live, conn) /\ call.op = "accepted" /\ call'.op = "none"
        /\ UNCHANGED <<is_wire_client, objects, kernel, waiting>>
    BY <1>1 DEF EndAccept, ThreadRuns, NoCall
  <1>3. /\ \A n \in LiveFds : kernel[n] = conn <=> n = live
        /\ \A i \in DOMAIN fds : fds[i].obj = conn => fds[i].live_fd = -1
        /\ waiting # conn /\ ~KnownIn(fds, fd)
    BY <1>1, <1>2 DEF Picture, Accepted, Numbers
  <1>4. Recording(fd, live, conn)
    BY <1>1, <1>2, <1>3 DEF Recording
  <1>5. QED
    BY <1>4, RecordPicture

-----------------------------------------------------------------------------
(* The whole of it.                                                        *)

\* state_free() closes what is open, and nothing else.
LEMMA StateFreeCloses ==
  ASSUME TypeInv, Picture, StateFree
  PROVE  SocketsClosed' /\ run' = "freed"
  <1>1. call.op = "none"
    BY DEF StateFree, NoCall
  <1>2. ASSUME NEW i \in DOMAIN fds, fds[i].live_fd >= 0, ~fds[i].is_closed
        PROVE  /\ fds[i].live_fd \in LiveFds /\ fds[i].obj # 0
               /\ kernel[fds[i].live_fd] = fds[i].obj
    BY <1>1, <1>2, PlainFacts DEF Picture, Denotes, OpenEntries, Closing
  <1>3. \A n \in ToClose : kernel[n] # 0
    BY <1>2 DEF ToClose
  <1>4. /\ run' = "freed" /\ fds' = fds
        /\ kernel' = [n \in LiveFds |-> IF n \in ToClose THEN 0 ELSE kernel[n]]
    BY <1>3 DEF StateFree
  <1>5. ASSUME NEW i \in DOMAIN fds, fds[i].type = "socket", NEW n \in LiveFds
        PROVE  kernel'[n] # fds[i].obj
    <2>1. CASE n \in ToClose
      BY <1>4, <2>1, PlainFacts
    <2>2. CASE n \notin ToClose
      <3>1. kernel[n] = fds[i].obj => i \in OpenEntries /\ fds[i].live_fd = n
        BY <1>1 DEF Picture, Denotes
      <3>2. kernel[n] # fds[i].obj
        BY <1>5, <2>2, <3>1 DEF OpenEntries, ToClose
      <3>3. QED
        BY <1>4, <2>2, <3>2
    <2>3. QED
      BY <2>1, <2>2
  <1>6. QED
    BY <1>4, <1>5 DEF SocketsClosed

LEMMA NextPicture ==
  ASSUME TypeInv, CarefulScripts, run = "on", Picture, Next
  PROVE  (run' = "on" => Picture') /\ SocketsClosed'
  <1> DEFINE Goal == (run' = "on" => Picture') /\ run' \notin {"bad close", "freed"}
  <1>1. ASSUME NEW fd \in ScriptFds, Socket(fd) \/ OpenFile(fd)
        PROVE  Goal
    <2>1. run' = "on" => Picture'
      BY <1>1, NewEntryPicture DEF Socket, OpenFile
    <2>2. run' \in {"on", "duplicate script fd", "duplicate live fd"}
      BY <1>1 DEF Socket, OpenFile, NewEntry
    <2>3. QED
      BY <2>1, <2>2
  <1>2. ASSUME NEW fd \in ScriptFds, Listen(fd)
        PROVE  Goal
    BY <1>2, ListenPicture DEF Listen
  <1>3. ASSUME NEW fd \in ScriptFds, Close(fd)
        PROVE  Goal
    BY <1>3, ClosePicture
  <1>4. ASSUME NEW fd \in ScriptFds, BeginClose(fd)
        PROVE  Goal
    BY <1>4, BeginClosePicture
  <1>5. ASSUME NEW fd1 \in ScriptFds, NEW fd2 \in ScriptFds, Pipe(fd1, fd2)
        PROVE  Goal
    <2>1. run' \in {"on", "duplicate script fd", "duplicate live fd"}
      BY <1>5 DEF Pipe
    <2>2. QED
      BY <1>5, <2>1, PipePicture
  <1>6. ASSUME NEW listening \in ScriptFds, NEW fd \in ScriptFds, Accept(listening, fd)
        PROVE  Goal
    <2>1. run' \in {"on", "wrong child", "no child"}
      BY <1>6 DEF Accept, RecordAccept
    <2>2. QED
      BY <1>6, <2>1, AcceptPicture
  <1>7. ASSUME NEW listening \in ScriptFds, NEW fd \in ScriptFds, BeginAccept(listening, fd)
        PROVE  Goal
    BY <1>7, BeginAcceptPicture DEF BeginAccept
  <1>8. ASSUME InboundSyn PROVE Goal
    BY <1>8, InboundSynPicture DEF InboundSyn
  <1>9. ASSUME HandshakeDone PROVE Goal
    BY <1>9, HandshakeDonePicture DEF HandshakeDone
  <1>10. ASSUME RemoteConnects PROVE Goal
    BY <1>10, RemoteConnectsPicture DEF RemoteConnects
  <1>11. ASSUME EndClose PROVE Goal
    <2>1. run' \in {"on", "unknown fd"}
      BY <1>11 DEF EndClose
    <2>2. QED
      BY <1>11, <2>1, EndClosePicture
  <1>12. ASSUME AcceptReturns PROVE Goal
    BY <1>12, AcceptReturnsPicture DEF AcceptReturns
  <1>13. ASSUME EndAccept PROVE Goal
    <2>1. run' \in {"on", "wrong child", "no child"}
      BY <1>13 DEF EndAccept, RecordAccept
    <2>2. QED
      BY <1>13, <2>1, EndAcceptPicture
  <1>14. CASE StateFree
    BY <1>14, StateFreeCloses
  <1>15. Goal => (run' = "on" => Picture') /\ SocketsClosed'
    BY DEF SocketsClosed
  <1> HIDE DEF Goal
  <1>16. QED
    BY <1>1, <1>2, <1>3, <1>4, <1>5, <1>6, <1>7, <1>8, <1>9, <1>10, <1>11, <1>12,
       <1>13, <1>14, <1>15 DEF Next

LEMMA InitIInv == Init => IInv
  <1> SUFFICES ASSUME Init PROVE IInv
    OBVIOUS
  <1>1. TypeInv
    BY InitTypes
  <1>2. fds = <<>> /\ waiting = 0 /\ call.op = "none" /\ run = "on"
        /\ \A n \in LiveFds : kernel[n] = 0
    BY DEF Init, NoCall
  <1>3. Picture
    BY <1>2 DEF Picture, Distinct, DistinctIn, Unaccepted, Denotes, Waits, Accepted,
                Numbers, OpenEntries
  <1>4. QED
    BY <1>1, <1>2, <1>3 DEF IInv, SocketsClosed

LEMMA NextIInv == IInv /\ [Next]_vars => IInv'
  <1> SUFFICES ASSUME IInv, [Next]_vars PROVE IInv'
    OBVIOUS
  <1>1. TypeInv'
    BY NextTypes DEF IInv
  <1>2. ASSUME CarefulScripts, Next
        PROVE  (run' = "on" => Picture') /\ SocketsClosed'
    <2>1. run = "on"
      BY <1>2 DEF Next, Socket, OpenFile, NewEntry, Listen, Close, BeginClose, Pipe, Accept,
                  BeginAccept, InboundSyn, HandshakeDone, RemoteConnects, EndClose,
                  AcceptReturns, EndAccept, StateFree, MainRuns, ThreadRuns
    <2>2. QED
      BY <1>2, <2>1, NextPicture DEF IInv
  <1>3. ASSUME CarefulScripts, UNCHANGED vars
        PROVE  (run' = "on" => Picture') /\ SocketsClosed'
    <2>1. SocketsClosed'
      BY <1>3 DEF vars, IInv, SocketsClosed
    <2>2. ASSUME run = "on"
          PROVE  Picture'
      <3>1. UNCHANGED <<is_wire_client, fds, kernel, waiting, call>>
        BY <1>3 DEF vars
      <3>2. SameNumbers /\ Picture
        BY <1>3, <2>2, <3>1 DEF SameNumbers, IInv
      <3>3. Distinct' /\ Numbers' /\ Denotes'
        BY <3>1, <3>2, SameNumbersKeep DEF Picture
      <3>4. Unaccepted' /\ Waits' /\ Accepted'
        BY <3>1, <3>2 DEF Picture, Unaccepted, Waits, Accepted
      <3>5. QED
        BY <3>3, <3>4 DEF Picture
    <2>3. QED
      BY <1>3, <2>1, <2>2 DEF vars
  <1>4. QED
    BY <1>1, <1>2, <1>3 DEF IInv

\* In runs of careful scripts the list stays a true picture of the kernel's
\* table: what check_duplicate_fd() is for, and what every call on a
\* descriptor of the script relies on.
THEOREM ListIsTrue ==
  ASSUME CarefulScripts
  PROVE  Spec => []ListMatchesKernel
  <1>1. ASSUME IInv, run = "on"
        PROVE  ListMatchesKernel
    <2>1. Picture /\ TypeInv
      BY <1>1 DEF IInv
    <2>2. \A i \in OpenEntries : i \in DOMAIN fds /\ kernel[fds[i].live_fd] = fds[i].obj
      BY <2>1 DEF Picture, Denotes, OpenEntries
    <2>3. ASSUME NEW i \in OpenEntries, NEW j \in OpenEntries,
                 fds[i].script_fd = fds[j].script_fd \/ fds[i].live_fd = fds[j].live_fd
          PROVE  i = j
      <3>1. CASE fds[i].live_fd = fds[j].live_fd
        BY <2>1, <2>2, <3>1 DEF Picture, Distinct, DistinctIn
      <3>2. CASE fds[i].script_fd = fds[j].script_fd
        <4>1. fds[i].script_fd \in ScriptFds /\ ~fds[i].is_closed /\ ~fds[j].is_closed
          BY <2>1, <2>2, PlainFacts DEF OpenEntries
        <4>2. QED
          BY <2>1, <2>2, <3>2, <4>1 DEF Picture, Distinct, DistinctIn
      <3>3. QED
        BY <2>3, <3>1, <3>2
    <2>4. QED
      BY <2>2, <2>3 DEF ListMatchesKernel, OneEntryPerFd
  <1>2. IInv => ListMatchesKernel
    BY <1>1 DEF ListMatchesKernel
  <1>3. QED
    BY InitIInv, NextIInv, <1>2, PTL DEF Spec

\* And the end of such a run closes every socket that it has made, without a
\* close() that fails on the way.
THEOREM AllSocketsClosed ==
  ASSUME CarefulScripts
  PROVE  Spec => []SocketsClosed
  <1>1. IInv => SocketsClosed
    BY DEF IInv
  <1>2. QED
    BY InitIInv, NextIInv, <1>1, PTL DEF Spec
=============================================================================
