----------------------------- MODULE Redirector -----------------------------
(***************************************************************************)
(* The redirector (assets/hostfs.c), the resident program that turns the   *)
(* INT 2Fh calls DOS makes for its drive into commands of the host file    *)
(* card (HostFiles).  An action is one call: DOS is not reentrant, so the  *)
(* commands of a call follow each other.                                   *)
(*                                                                         *)
(* DOS owns the system file table, an entry of it per open, and the        *)
(* transfer areas in which searches keep their state; the redirector fills *)
(* them.  Between two calls the machine may be saved and loaded            *)
(* (ClockSystem), which takes the memory back but not the host.            *)
(***************************************************************************)
EXTENDS HostFiles, FiniteSets

CONSTANTS
  Slots,       \* entries of the system file table
  Areas,       \* transfer areas with a search in them
  Counts,      \* lengths of reads
  Data,        \* what is written
  Patterns,    \* what a search may match: sets of names
  MaxCalls,    \* bound: calls of one behaviour
  MaxSize,     \* bound: bytes of a file
  Host         \* the directory at the start

ASSUME RedirectorAssumption ==
  /\ \A p \in Patterns : p \subseteq Names /\ IsFiniteSet(p)
  /\ Host \in [Names -> [kind : {"none", "file", "dir"}, data : Seq(Byte),
                         ro : BOOLEAN]]

VARIABLES
  sft,      \* the system file table
  label,    \* vollabel_pending: the first entry of a search is still to come
  calls,    \* calls so far
  saved,    \* the state file
  dos,      \* what each file holds as DOS was told
  last,     \* the bytes the last call read, and what they should be
  search,   \* the searches: what they match and what they found
  mishap    \* what has happened that the code does not recover from

guestVars == <<dos, last, search, mishap>>
vars == <<hfs, sft, label, calls, saved, guestVars>>

FreeEntry == [open |-> 0, handle |-> 0, name |-> CHOOSE n \in Names : TRUE,
              pos |-> 0, size |-> 0]
NothingTold == [got |-> <<>>, want |-> <<>>, stale |-> FALSE]
NoSearch == [match |-> {}, found |-> <<>>, done |-> TRUE, alone |-> TRUE]

Init ==
  /\ HfsInit(Host)
  /\ sft = [i \in Slots |-> FreeEntry]
  /\ label = FALSE /\ calls = 0 /\ saved = <<>>
  /\ dos = [n \in Names |-> Host[n].data]
  /\ last = NothingTold
  /\ search = [a \in Areas |-> NoSearch]
  /\ mishap = {}

(***************************************************************************)
(* What a call is: the machine runs, and the guest makes one more of them. *)
(***************************************************************************)
Call == /\ hfs.up /\ calls < MaxCalls
        /\ calls' = calls + 1
        /\ UNCHANGED saved

\* Every command but that of a search in progress takes the reply in which
\* the first entry may still be waiting.
Interrupted == [a \in Areas |->
                  [search[a] EXCEPT !.alone = @ /\ (search[a].done \/ ~label)]]

\* Calls for another drive or another service go on to the handler before;
\* commit, set attributes, close all and a write of no bytes are answered
\* with success, the card is not asked.
Ignored == hfs.up /\ UNCHANGED vars

\* Another stream of the file keeps bytes that are not in the file yet.
Unwritten(n, h) == \E k \in DOMAIN hfs.files \ {h} :
                      hfs.files[k].name = n /\ hfs.files[k].pend # NoWrite

Told(n, h, got, want) ==
  last' = [got |-> got, want |-> want, stale |-> Unwritten(n, h)]

Races(n, h) == IF Unwritten(n, h) THEN {"race"} ELSE {}
Wrapped(s) == IF s.next = 0 THEN {"wrapped"} ELSE {}

(***************************************************************************)
(* Calls on names.                                                         *)
(***************************************************************************)
\* Subfunctions 01h, 03h, 05h, 0Ch, 0Fh: what the card answers is the
\* answer.
Simple(new) ==
  /\ Call /\ hfs' = new /\ search' = Interrupted
  /\ last' = NothingTold
  /\ UNCHANGED <<sft, label, mishap>>

MakeDir(n)   == Simple(Mkdir(hfs, n)) /\ UNCHANGED dos
ChangeDir(n) == Simple(ChDir(hfs, n)) /\ UNCHANGED dos
GetDiskInfo  == Simple(DiskInfo(hfs)) /\ UNCHANGED dos

GetAttributes(n) ==
  /\ Call /\ hfs' = GetAttr(hfs, n) /\ search' = Interrupted
  /\ IF hfs'.ok THEN Told(n, HandleMod, <<hfs'.reply.size>>, <<Len(dos[n])>>)
     ELSE last' = NothingTold
  /\ UNCHANGED <<sft, label, mishap, dos>>

\* 01h and 13h, and 11h.
Delete(n) ==
  /\ Simple(Remove(hfs, n))
  /\ dos' = IF hfs'.ok THEN [dos EXCEPT ![n] = <<>>] ELSE dos

RenameTo(old, new) ==
  /\ old # new
  /\ Simple(Rename(hfs, old, new))
  /\ dos' = IF hfs'.ok THEN [dos EXCEPT ![new] = dos[old], ![old] = <<>>]
            ELSE dos

(***************************************************************************)
(* Calls on files.                                                         *)
(***************************************************************************)
\* fill_sft(), of an entry that DOS has reserved.
FillSft(i, n, s) ==
  sft' = IF s.ok THEN [sft EXCEPT ![i] = [open |-> 1, name |-> n, pos |-> 0,
                                          handle |-> s.reply.handle,
                                          size |-> s.reply.size]]
         ELSE sft

OpenCall(i, n, s) ==
  /\ Call /\ sft[i].open = 0
  /\ hfs' = s
  /\ FillSft(i, n, s)
  /\ search' = Interrupted
  /\ UNCHANGED label

\* 16h
Open(i, n) ==
  /\ OpenCall(i, n, OpenFile(hfs, n))
  /\ IF hfs'.ok THEN Told(n, HandleMod, <<hfs'.reply.size>>, <<Len(dos[n])>>)
     ELSE last' = NothingTold
  /\ mishap' = mishap \cup Wrapped(hfs')
  /\ UNCHANGED dos

\* 17h, and 2Eh of a file that cannot be opened.
CreateNew(i, n) ==
  /\ OpenCall(i, n, Create(hfs, n))
  /\ dos' = IF hfs'.ok THEN [dos EXCEPT ![n] = <<>>] ELSE dos
  /\ mishap' = mishap \cup Wrapped(hfs') \cup Races(n, HandleMod)
  /\ last' = NothingTold

\* 06h: the card closes its stream, whoever else has the entry open.
CloseFile(i) ==
  /\ Call /\ sft[i].open > 0
  /\ sft' = [sft EXCEPT ![i].open = @ - 1]
  /\ hfs' = Close(hfs, sft[i].handle)
  /\ search' = Interrupted
  /\ mishap' = IF sft[i].open > 1 THEN mishap \cup {"duplicate"} ELSE mishap
  /\ last' = NothingTold
  /\ UNCHANGED <<label, dos>>

\* DOS shares an entry among handles of its own; no call says so.
Duplicate(i) ==
  /\ Call /\ sft[i].open = 1
  /\ sft' = [sft EXCEPT ![i].open = 2]
  /\ UNCHANGED <<hfs, label, guestVars>>

\* 08h: the stream is put where DOS is, then read; failure is no bytes.
ReadFile(i, count) ==
  LET e == sft[i]
      s == Read(Seek(hfs, e.handle, e.pos), e.handle, count)
      got == IF s.ok THEN s.reply.data ELSE <<>>
  IN /\ Call /\ e.open > 0
     /\ hfs' = s
     /\ IF s.up
        THEN /\ sft' = [sft EXCEPT ![i].pos = @ + Len(got)]
             /\ Told(e.name, e.handle, got, Slice(dos[e.name], e.pos, count))
        ELSE UNCHANGED <<sft, last>>
     /\ search' = Interrupted
     /\ UNCHANGED <<label, dos, mishap>>

\* 09h: what the card took is what was written.
WriteFile(i, data, fits) ==
  LET e == sft[i]
      s == Write(Seek(hfs, e.handle, e.pos), e.handle, data, fits)
      end == e.pos + Len(data)
  IN /\ Call /\ e.open > 0 /\ end <= MaxSize
     /\ hfs' = s
     /\ search' = Interrupted
     /\ IF s.ok
        THEN /\ sft' = [sft EXCEPT ![i].pos = end,
                                   ![i].size = IF end > @ THEN end ELSE @]
             /\ dos' = [dos EXCEPT ![e.name] = Splice(@, e.pos, data)]
             /\ mishap' = mishap
                  \cup (IF s.files[e.handle].mode = "rw" THEN {}
                        ELSE {"unwritable"})
                  \cup Races(e.name, e.handle)
        ELSE UNCHANGED <<sft, dos, mishap>>
     /\ last' = NothingTold
     /\ UNCHANGED label

\* 21h
SeekFromEnd(i, off) ==
  LET e == sft[i]
      s == SeekEnd(hfs, e.handle, off)
  IN /\ Call /\ e.open > 0
     /\ hfs' = s
     /\ search' = Interrupted
     /\ IF s.ok
        THEN /\ sft' = [sft EXCEPT ![i].pos = s.reply.pos]
             /\ Told(e.name, e.handle, <<s.reply.pos>>,
                     <<(Len(dos[e.name]) + off) % PosMod>>)
        ELSE UNCHANGED <<sft, last>>
     /\ UNCHANGED <<label, dos, mishap>>

(***************************************************************************)
(* Searches.                                                               *)
(***************************************************************************)
\* fill_found(): whatever reply is there is read as an entry.
FoundIn(reply) == IF reply.kind = "entry" THEN reply.name ELSE "garbage"

\* 1Bh: with the label asked for, the first entry waits in the reply.
Search(a, pattern, withLabel) ==
  LET s == FindFirst(hfs, pattern) IN
  /\ Call /\ hfs' = s
  /\ IF s.ok
     THEN /\ label' = withLabel
          /\ search' = [b \in Areas |->
               IF b # a THEN [search[b] EXCEPT !.alone = @ /\ search[b].done]
               ELSE [match |-> {n \in pattern : hfs.host[n].kind # "none"},
                     found |-> IF withLabel THEN <<>>
                               ELSE <<FoundIn(s.reply)>>,
                     done |-> FALSE, alone |-> TRUE]]
     ELSE /\ search' = [b \in Areas |->
               IF b = a THEN NoSearch
               ELSE [search[b] EXCEPT !.alone = @ /\ search[b].done]]
          /\ UNCHANGED label
  /\ last' = NothingTold
  /\ UNCHANGED <<sft, dos, mishap>>

\* 1Ch: the entry that waits, or the next one of the card.
SearchNext(a) ==
  LET s == FindNext(hfs)
      others == [b \in Areas |->
                   [search[b] EXCEPT !.alone = @ /\ (b = a \/ search[b].done)]]
  IN
  /\ Call /\ ~search[a].done
  /\ label' = FALSE
  /\ \/ /\ label
        /\ search' = [others EXCEPT ![a].found = Append(@, FoundIn(hfs.reply))]
        /\ UNCHANGED hfs
     \/ /\ ~label
        /\ hfs' = s
        /\ search' = IF s.up /\ s.ok
                     THEN [others EXCEPT ![a].found = Append(@, FoundIn(s.reply))]
                     ELSE [others EXCEPT ![a].done = s.up]
  /\ last' = NothingTold
  /\ UNCHANGED <<sft, dos, mishap>>

(***************************************************************************)
(* Save and load.                                                          *)
(***************************************************************************)
Save ==
  /\ hfs.up /\ calls < MaxCalls
  /\ calls' = calls + 1
  /\ saved' = [card |-> Saved(hfs), sft |-> sft, label |-> label,
               search |-> search]
  /\ UNCHANGED <<hfs, sft, label, guestVars>>

\* Some of what was saved cannot be opened or found any more.
Loses(s) == \/ \E h \in DOMAIN s.files : s.files[h].mode = "bad"
            \/ \E e \in s.left : e.kind = "gone"

LoadSaved ==
  LET s == Load(hfs, saved.card) IN
  /\ hfs.up /\ calls < MaxCalls /\ saved # <<>>
  /\ calls' = calls + 1
  /\ hfs' = s
  /\ sft' = saved.sft /\ label' = saved.label /\ search' = saved.search
  /\ dos' = [n \in Names |-> s.host[n].data]
  /\ mishap' = IF Loses(s) THEN mishap \cup {"lost"} ELSE mishap
  /\ last' = NothingTold
  /\ UNCHANGED saved

Next ==
  \/ \E n \in Names :
       \/ MakeDir(n) \/ ChangeDir(n) \/ GetAttributes(n) \/ Delete(n)
       \/ \E m \in Names : RenameTo(n, m)
       \/ \E i \in Slots : Open(i, n) \/ CreateNew(i, n)
  \/ GetDiskInfo
  \/ Ignored
  \/ \E i \in Slots :
       \/ CloseFile(i) \/ Duplicate(i)
       \/ \E count \in Counts : ReadFile(i, count)
       \/ \E data \in Data, fits \in BOOLEAN : WriteFile(i, data, fits)
       \/ \E off \in {0, PosMod - 1} : SeekFromEnd(i, off)
  \/ \E a \in Areas :
       \/ SearchNext(a)
       \/ \E p \in Patterns, withLabel \in BOOLEAN : Search(a, p, withLabel)
  \/ Save
  \/ LoadSaved

Spec == Init /\ [][Next]_vars

(***************************************************************************)
(* Properties.                                                             *)
(***************************************************************************)
\* A file is what DOS was told: every read, size and position agrees with
\* what was written through whichever entry, and a file no stream has open
\* holds it.  Unless the code's known gaps were met: an entry closed while
\* shared, a write to a file that cannot be written, two streams writing to
\* one file, a load that could not open a file, a wrapped handle
\* (hfs_cmd_read, hfs_cmd_write, hfs_cmd_seek and int2f_handler).
FilesAreFaithful ==
  mishap = {} =>
    /\ last.stale \/ last.got = last.want
    /\ \A n \in Names : (\A h \in DOMAIN hfs.files : hfs.files[h].name # n)
                           => hfs.host[n].data = dos[n]

\* Two open entries never share a stream before the handles wrap, whatever
\* was opened, closed, saved and loaded in between.
HandlesDistinct ==
  "wrapped" \notin mishap =>
    \A i, j \in Slots : sft[i].open > 0 /\ sft[j].open > 0 /\ i # j
                          => sft[i].handle # sft[j].handle

\* A search that ran to its end found each name its pattern matched exactly
\* once, whatever became of the files meanwhile: unless another search or,
\* with the first entry waiting in the card's reply, another call came in
\* between.
SearchIsComplete ==
  \A a \in Areas :
    search[a].done /\ search[a].alone =>
      /\ Len(search[a].found) = Cardinality(search[a].match)
      /\ {search[a].found[k] : k \in DOMAIN search[a].found} = search[a].match

\* The emulator ends in an uncaught exception only over something a load
\* could not find again.
StaysUp == hfs.up \/ "lost" \in mishap

=============================================================================
