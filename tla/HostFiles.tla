----------------------------- MODULE HostFiles -----------------------------
(***************************************************************************)
(* The host file system card (the HFS commands of isa/isa_testcard.cpp and *)
(* card_save(), card_load() of isa_testcard.h) and the host directory it   *)
(* serves, as operators from the card's record to its next one.            *)
(*                                                                         *)
(* The directory is flat and its names are 8.3 names; a file is the        *)
(* sequence of its bytes.  The host is Windows, as the build is: an open   *)
(* file is neither deleted nor renamed.  A file stream keeps what was      *)
(* written in its buffer until it is moved or closed.                      *)
(*                                                                         *)
(* A command leaves a reply: what the status port and the data port hold.  *)
(* The parameter buffer is written from its reset on before each command,  *)
(* so a command takes its parameters as arguments.                         *)
(***************************************************************************)
EXTENDS Integers, Sequences, Folds

CONSTANTS
  Names,       \* the names of the directory
  Byte,        \* the values of a byte, 0 among them
  HandleMod,   \* values of a handle, 2^16 in the code
  PosMod       \* values of a file position, 2^32 in the code

ASSUME HostFilesAssumption ==
  HandleMod \in Nat \ {0, 1} /\ PosMod \in Nat \ {0} /\ 0 \in Byte

VARIABLE hfs   \* the card and the host directory

NoReply == [kind |-> "none"]
NoWrite == [at |-> 0, data |-> <<>>]
Nothing == [kind |-> "none", data |-> <<>>, ro |-> FALSE]
File(data, ro) == [kind |-> "file", data |-> data, ro |-> ro]
Directory == [kind |-> "dir", data |-> <<>>, ro |-> FALSE]

HfsInit(host) ==
  hfs = [host |-> host, next |-> 1, files |-> <<>>, left |-> {},
         ok |-> TRUE, reply |-> NoReply, up |-> TRUE]

(***************************************************************************)
(* The host.                                                               *)
(***************************************************************************)
\* Bytes written at a place; a hole before them reads as zeros.
Splice(old, at, data) ==
  LET len == IF at + Len(data) > Len(old) THEN at + Len(data) ELSE Len(old)
  IN IF data = <<>> THEN old
     ELSE [i \in 1..len |-> IF i \in at + 1 .. at + Len(data)
                            THEN data[i - at]
                            ELSE IF i <= Len(old) THEN old[i] ELSE 0]

Slice(data, at, count) ==
  SubSeq(data, at + 1, IF at + count < Len(data) THEN at + count
                       ELSE Len(data))

\* The buffer of a stream reaches its file.
Flush(s, h) ==
  LET f == s.files[h] IN
  [s EXCEPT !.host[f.name].data = Splice(@, f.pend.at, f.pend.data),
            !.files[h].pend = NoWrite]

IsOpen(s, n) ==
  \E h \in DOMAIN s.files : s.files[h].name = n /\ s.files[h].mode # "bad"

(***************************************************************************)
(* Replies.                                                                *)
(***************************************************************************)
Ok(s, reply) == [s EXCEPT !.ok = TRUE, !.reply = reply]
Fail(s) == [s EXCEPT !.ok = FALSE, !.reply = NoReply]

Entry(s, n) == [kind |-> "entry", name |-> n,
                size |-> Len(s.host[n].data), dir |-> s.host[n].kind = "dir"]

(***************************************************************************)
(* Directory commands.                                                     *)
(***************************************************************************)
\* hfs_cmd_find_next(): the entries left are those of the last FINDFIRST.
\* An entry that is gone is met only after a load, which reads them afresh:
\* last_write_time() throws, and nothing catches it.
\* Mutant of FindNext: entries are looked up afresh.
FindNextAfresh(s) ==
  IF s.left = {} THEN Fail(s)
  ELSE LET e == CHOOSE e \in s.left : TRUE IN
       IF e.kind = "gone" \/ s.host[e.name].kind = "none"
       THEN [s EXCEPT !.up = FALSE]
       ELSE Ok([s EXCEPT !.left = @ \ {e}], e)

FindNext(s) ==
  IF s.left = {} THEN Fail(s)
  ELSE LET e == CHOOSE e \in s.left : TRUE IN
       IF e.kind = "gone" THEN [s EXCEPT !.up = FALSE]
       ELSE Ok([s EXCEPT !.left = @ \ {e}], e)

\* hfs_cmd_find_first(), for the names a pattern matches.
\* Mutant of FindFirst: the entries of the search before are kept.
FindFirstKeeps(s, pattern) ==
  FindNext([s EXCEPT !.left = @ \cup {Entry(s, n) :
              n \in {n \in pattern : s.host[n].kind # "none"}}])

FindFirst(s, pattern) ==
  FindNext([s EXCEPT !.left = {Entry(s, n) :
              n \in {n \in pattern : s.host[n].kind # "none"}}])

GetAttr(s, n) ==
  IF s.host[n].kind = "none" THEN Fail(s)
  ELSE Ok(s, [kind |-> "attr", size |-> Len(s.host[n].data)])

ChDir(s, n) == IF s.host[n].kind = "dir" THEN Ok(s, NoReply) ELSE Fail(s)

DiskInfo(s) == Ok(s, [kind |-> "disk"])

Mkdir(s, n) ==
  IF s.host[n].kind # "none" THEN Fail(s)
  ELSE Ok([s EXCEPT !.host[n] = Directory], NoReply)

\* hfs_cmd_rmdir() and hfs_cmd_delete() are the same: remove() takes a file
\* as well as an empty directory.
Remove(s, n) ==
  IF s.host[n].kind = "none" \/ IsOpen(s, n) THEN Fail(s)
  ELSE Ok([s EXCEPT !.host[n] = Nothing], NoReply)

\* rename() replaces a file that may be written.
Rename(s, old, new) ==
  LET may == /\ s.host[old].kind # "none" /\ ~IsOpen(s, old)
             /\ \/ s.host[new].kind = "none"
                \/ s.host[old].kind = "file" /\ s.host[new].kind = "file"
                   /\ ~s.host[new].ro /\ ~IsOpen(s, new)
  IN IF ~may THEN Fail(s)
     ELSE Ok([s EXCEPT !.host = [@ EXCEPT ![old] = Nothing,
                                          ![new] = s.host[old]]], NoReply)

(***************************************************************************)
(* File commands.                                                          *)
(***************************************************************************)
\* The stream of a handle that is assigned another file is closed first.
Closed(s, h) ==
  IF h \notin DOMAIN s.files THEN s
  ELSE LET g == Flush(s, h) IN
       [g EXCEPT !.files = [k \in DOMAIN @ \ {h} |-> @[k]]]

Meta(s, h, n) == [kind |-> "meta", handle |-> h, size |-> Len(s.host[n].data)]

\* The stream f under a handle.
With(files, h, f) == [k \in DOMAIN files \cup {h} |-> IF k = h THEN f ELSE files[k]]

Stream(n, mode) == [name |-> n, mode |-> mode, pos |-> 0, pend |-> NoWrite]

\* The next handle for a stream; the number wraps to 0.
\* Mutant of Give: a file opened to be read does not count the handles up.
GiveRwOnly(s, n, mode) ==
  LET h == s.next
      c == Closed(s, h)
      g == [c EXCEPT !.next = IF mode = "r" THEN h ELSE (h + 1) % HandleMod,
                     !.files = With(@, h, Stream(n, mode))]
  IN Ok(g, Meta(g, h, n))

Give(s, n, mode) ==
  LET h == s.next
      c == Closed(s, h)
      g == [c EXCEPT !.next = (h + 1) % HandleMod,
                     !.files = With(@, h, Stream(n, mode))]
  IN Ok(g, Meta(g, h, n))

\* hfs_cmd_open(): a file that cannot be written is opened to be read.
OpenFile(s, n) ==
  IF s.host[n].kind # "file" THEN Fail(s)
  ELSE Give(s, n, IF s.host[n].ro THEN "r" ELSE "rw")

\* hfs_cmd_create(): also truncates a file that is open.
Create(s, n) ==
  IF s.host[n].kind = "dir" \/ s.host[n].ro THEN Fail(s)
  ELSE Give([s EXCEPT !.host[n] = File(<<>>, FALSE)], n, "rw")

\* hfs_cmd_close(): any handle will do.
Close(s, h) == Ok(Closed(s, h), NoReply)

\* hfs_cmd_seek(): the stream forgets its errors and empties its buffer.
\* From the start of the file, as the caller keeps the position itself.
Seek(s, h, pos) ==
  IF h \notin DOMAIN s.files THEN Fail(s)
  ELSE LET g == Flush(s, h) IN
       Ok([g EXCEPT !.files[h].pos = pos], [kind |-> "pos", pos |-> pos])

\* From its end, off bytes on, modulo 2^32: the offset is unsigned and the
\* position is cut to 32 bits.  A stream that a load could not open has no
\* position: -1.
\* Mutant of SeekEnd: the end is that of the file without the buffer.
SeekEndBuffered(s, h, off) ==
  CASE h \notin DOMAIN s.files -> Fail(s)
    [] h \in DOMAIN s.files /\ s.files[h].mode = "bad" -> Seek(s, h, PosMod - 1)
    [] OTHER -> Seek(s, h, (Len(s.host[s.files[h].name].data) + off) % PosMod)

SeekEnd(s, h, off) ==
  CASE h \notin DOMAIN s.files -> Fail(s)
    [] h \in DOMAIN s.files /\ s.files[h].mode = "bad" -> Seek(s, h, PosMod - 1)
    [] OTHER -> LET end == Len(Flush(s, h).host[s.files[h].name].data)
                IN Seek(s, h, (end + off) % PosMod)

\* hfs_cmd_read(): the end of the file is no error.  The size for the log
\* is asked of the path, and file_size() throws when it is gone.
Read(s, h, count) ==
  IF h \notin DOMAIN s.files THEN Fail(s)
  ELSE LET f == s.files[h] IN
       IF s.host[f.name].kind = "none" THEN [s EXCEPT !.up = FALSE]
       ELSE Ok(s, [kind |-> "data",
                   data |-> IF f.mode = "bad" THEN <<>>
                            ELSE Slice(s.host[f.name].data, f.pos, count)])

\* hfs_cmd_write(): the length is the reply, written or not.  What does not
\* fit the buffer goes to the file at once.
Write(s, h, data, fits) ==
  IF h \notin DOMAIN s.files THEN Fail(s)
  ELSE LET f == s.files[h]
           g == IF f.mode # "rw" THEN s
                ELSE [s EXCEPT !.files[h].pend = [at |-> f.pos, data |-> data]]
       IN Ok(IF fits THEN g ELSE Flush(g, h),
             [kind |-> "count", count |-> Len(data)])

(***************************************************************************)
(* card_save() and card_load().                                            *)
(***************************************************************************)
\* What is saved: neither the host nor the buffers of the streams.
Saved(s) == [next |-> s.next, files |-> s.files, left |-> s.left,
             ok |-> s.ok, reply |-> s.reply]

\* Closing all streams, from the lowest handle on: what each file then holds.
Emptied(s) ==
  MapThenFoldSet(LAMBDA f, acc :
      [acc EXCEPT ![f.name] = Splice(@, f.pend.at, f.pend.data)],
    [n \in Names |-> s.host[n].data], LAMBDA h : s.files[h],
    LAMBDA S : CHOOSE h \in S : \A k \in S : h <= k, DOMAIN s.files)

\* A load closes the streams there are, opens those of the save to be read
\* and written and nothing less, and looks the entries up again.
Load(s, saved) ==
  LET host == [n \in Names |-> [s.host[n] EXCEPT !.data = Emptied(s)[n]]]
      now == [s EXCEPT !.host = host]
      Usable(n) == host[n].kind = "file" /\ ~host[n].ro
      Again(n) == IF host[n].kind = "none" THEN [kind |-> "gone", name |-> n]
                  ELSE Entry(now, n)
  IN [now EXCEPT
        !.next = saved.next, !.ok = saved.ok, !.reply = saved.reply,
        !.files = [h \in DOMAIN saved.files |->
                     [saved.files[h] EXCEPT
                        !.mode = IF Usable(saved.files[h].name) THEN "rw"
                                 ELSE "bad",
                        !.pend = NoWrite]],
        !.left = {Again(e.name) : e \in saved.left}]
=============================================================================
