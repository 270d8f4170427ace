-------------------------- MODULE RedirectorProofs --------------------------
(***************************************************************************)
(* Proofs about Redirector, for every directory, every number of entries   *)
(* of the file table and of searches, and any sequence of calls, saves and *)
(* loads: two open entries never share a handle before the handles wrap, a *)
(* search nobody disturbs finds each name once, and the emulator stays up  *)
(* unless a load lost something.                                           *)
(***************************************************************************)
EXTENDS Redirector, FiniteSetTheorems, TLAPS

-----------------------------------------------------------------------------
(* The card and the host.                                                  *)

\* What the records are made of; the bytes of files are left open.
HostShape(host) ==
  host = [n \in Names |-> [kind |-> host[n].kind, data |-> host[n].data,
                           ro |-> host[n].ro]]

FilesShape(files) ==
  files = [h \in DOMAIN files |->
             [name |-> files[h].name, mode |-> files[h].mode,
              pos |-> files[h].pos, pend |-> files[h].pend]]

CardShape(s) ==
  /\ s = [host |-> s.host, next |-> s.next, files |-> s.files,
          left |-> s.left, ok |-> s.ok, reply |-> s.reply, up |-> s.up]
  /\ HostShape(s.host) /\ FilesShape(s.files)
  /\ s.next \in 0 .. HandleMod - 1 /\ s.up \in BOOLEAN

\* A stream is that of a file the host has, or one a load could not open.
StreamsOpen(s, lost) ==
  \A h \in DOMAIN s.files :
    /\ s.files[h].name \in Names
    /\ IF s.files[h].mode = "bad" THEN lost
       ELSE s.host[s.files[h].name].kind = "file"

\* The entries left of a search are those of different names, and each of
\* them can still be read unless a load found it gone.
EntriesKnown(left, lost) ==
  /\ \A e \in left : /\ e.name \in Names
                     /\ e.kind \in {"entry", "gone"}
                     /\ e.kind = "gone" => lost
  /\ \A e, f \in left : e.name = f.name => e = f

ReplyKnown(reply) == reply.kind = "entry" => reply.name \in Names

CardInv(s, lost) ==
  /\ CardShape(s)
  /\ StreamsOpen(s, lost)
  /\ EntriesKnown(s.left, lost)
  /\ ReplyKnown(s.reply)
  /\ s.up \/ lost

-----------------------------------------------------------------------------
(* The guest.                                                              *)

TableType(table) ==
  /\ table = [i \in Slots |->
             [open |-> table[i].open, handle |-> table[i].handle,
              name |-> table[i].name, pos |-> table[i].pos,
              size |-> table[i].size]]
  /\ \A i \in Slots : table[i].open \in Nat /\ table[i].handle \in Nat

\* The next handle is above those of the open entries, which all differ.
HandlesBelow(table, next) ==
  /\ next > 0
  /\ \A i \in Slots : table[i].open > 0 => table[i].handle < next
  /\ \A i, j \in Slots : table[i].open > 0 /\ table[j].open > 0 /\ i # j
                           => table[i].handle # table[j].handle

Found == Names \cup {"garbage"}

SearchRecord ==
  [match : {m \in SUBSET Names : IsFiniteSet(m)}, found : Seq(Found),
   done : BOOLEAN, alone : BOOLEAN]

SearchType(srch) == srch \in [Areas -> SearchRecord]

NamesOf(left) == {e.name : e \in left}

\* What a search has still to find: the entries left, and the first one as
\* long as it waits in the reply.
Rest(left, reply, lab) ==
  NamesOf(left) \cup (IF lab THEN {reply.name} ELSE {})

\* An undisturbed search has found what it matches but for what is left to
\* find, each name once.
Complete(x, rest) ==
  /\ {x.found[k] : k \in DOMAIN x.found} \cup rest = x.match
  /\ Len(x.found) + Cardinality(rest) = Cardinality(x.match)

InProgress(x) == x.alone /\ ~x.done

\* At most one search in progress is undisturbed, and the entries left are
\* its own.
SearchesSound(srch, left, reply, lab) ==
  /\ \A a \in Areas : srch[a].alone =>
       IF srch[a].done THEN Complete(srch[a], {})
       ELSE /\ lab => reply.kind = "entry" /\ reply.name \notin NamesOf(left)
            /\ Complete(srch[a], Rest(left, reply, lab))
  /\ \A a, b \in Areas : InProgress(srch[a]) /\ InProgress(srch[b]) => a = b

\* What a save holds of the card.
SavedCard(card) ==
  /\ card.next \in 0 .. HandleMod - 1 /\ FilesShape(card.files)
  /\ \A h \in DOMAIN card.files : card.files[h].name \in Names
  /\ \A e \in card.left : e.name \in Names
  /\ \A e, f \in card.left : e.name = f.name => e = f
  /\ ReplyKnown(card.reply)

\* What a save wrote is as sound as what it read.
SavedInv ==
  saved # <<>> =>
    /\ saved = [card |-> saved.card, sft |-> saved.sft, label |-> saved.label,
                search |-> saved.search]
    /\ SavedCard(saved.card)
    /\ TableType(saved.sft) /\ SearchType(saved.search)
    /\ saved.label \in BOOLEAN
    /\ "wrapped" \notin mishap => HandlesBelow(saved.sft, saved.card.next)
    /\ SearchesSound(saved.search, saved.card.left, saved.card.reply,
                     saved.label)

RedirectorInv ==
  /\ CardInv(hfs, "lost" \in mishap)
  /\ TableType(sft) /\ SearchType(search) /\ label \in BOOLEAN
  /\ "wrapped" \notin mishap => HandlesBelow(sft, hfs.next)
  /\ SearchesSound(search, hfs.left, hfs.reply, label)
  /\ SavedInv

-----------------------------------------------------------------------------
(* The card's commands keep its invariant.                                 *)

\* What is behind s and t of the card is the same.
Keeps(s, t) == t.next = s.next /\ t.left = s.left

CardRecord(s) ==
  s = [host |-> s.host, next |-> s.next, files |-> s.files, left |-> s.left,
       ok |-> s.ok, reply |-> s.reply, up |-> s.up]

\* The answers.
LEMMA OkFacts ==
  ASSUME NEW s, NEW lost, CardInv(s, lost), NEW reply, ReplyKnown(reply),
         NEW t, t = Ok(s, reply)
  PROVE  /\ CardInv(t, lost) /\ Keeps(s, t)
         /\ t.ok /\ t.reply = reply /\ t.up = s.up
         /\ t.files = s.files /\ t.host = s.host
<1>1. CardRecord(t)
  BY DEF CardInv, CardShape, Ok, CardRecord
<1>2. /\ t.host = s.host /\ t.next = s.next /\ t.files = s.files
      /\ t.left = s.left /\ t.up = s.up /\ t.ok /\ t.reply = reply
  BY DEF CardInv, CardShape, Ok
<1>3. QED
  BY <1>1, <1>2 DEF CardInv, CardShape, StreamsOpen, CardRecord, Keeps

\* A command that fails changes only its answer.
LEMMA FailFacts ==
  ASSUME NEW s, NEW lost, CardInv(s, lost), NEW t, t = Fail(s)
  PROVE  /\ CardInv(t, lost) /\ Keeps(s, t) /\ ~t.ok /\ t.up = s.up
<1>1. CardRecord(t)
  BY DEF CardInv, CardShape, Fail, CardRecord
<1>2. /\ t.host = s.host /\ t.next = s.next /\ t.files = s.files
      /\ t.left = s.left /\ t.up = s.up /\ ~t.ok /\ t.reply = NoReply
  BY DEF CardInv, CardShape, Fail
<1>3. ReplyKnown(t.reply)
  BY <1>2 DEF ReplyKnown, NoReply
<1>4. QED
  BY <1>1, <1>2, <1>3 DEF CardInv, CardShape, StreamsOpen, CardRecord, Keeps

\* A new host, or new streams.
LEMMA HostFacts ==
  ASSUME NEW s, NEW lost, CardInv(s, lost), NEW host, HostShape(host),
         NEW t, t = [s EXCEPT !.host = host],
         StreamsOpen(t, lost)
  PROVE  /\ CardInv(t, lost) /\ Keeps(s, t)
         /\ t.up = s.up /\ t.files = s.files /\ t.host = host
<1>1. CardRecord(t)
  BY DEF CardInv, CardShape, CardRecord
<1>2. /\ t.host = host /\ t.next = s.next /\ t.files = s.files
      /\ t.left = s.left /\ t.up = s.up /\ t.reply = s.reply
  BY DEF CardInv, CardShape
<1>3. QED
  BY <1>1, <1>2 DEF CardInv, CardShape, CardRecord, Keeps

\* New streams of files the host has, or of lost ones.
LEMMA FilesFacts ==
  ASSUME NEW s, NEW lost, CardInv(s, lost), NEW files, FilesShape(files),
         NEW t, t = [s EXCEPT !.files = files],
         StreamsOpen(t, lost)
  PROVE  /\ CardInv(t, lost) /\ Keeps(s, t)
         /\ t.up = s.up /\ t.files = files /\ t.host = s.host
<1>1. CardRecord(t)
  BY DEF CardInv, CardShape, CardRecord
<1>2. /\ t.host = s.host /\ t.next = s.next /\ t.files = files
      /\ t.left = s.left /\ t.up = s.up /\ t.reply = s.reply
  BY DEF CardInv, CardShape
<1>3. QED
  BY <1>1, <1>2 DEF CardInv, CardShape, CardRecord, Keeps

\* A host whose entry n is another one.
EntryShape(e) == e = [kind |-> e.kind, data |-> e.data, ro |-> e.ro]

\* A directory with one entry replaced.
LEMMA EntryReplaced ==
  ASSUME NEW host, HostShape(host), NEW n \in Names, NEW e, EntryShape(e),
         NEW new, new = [host EXCEPT ![n] = e]
  PROVE  /\ HostShape(new)
         /\ new[n] = e
         /\ \A m \in Names \ {n} : new[m] = host[m]
BY DEF HostShape, EntryShape

\* An entry with other bytes.
LEMMA DataReplaced ==
  ASSUME NEW host, HostShape(host), NEW n \in Names, NEW data,
         NEW new, new = [host EXCEPT ![n].data = data]
  PROVE  /\ HostShape(new)
         /\ \A m \in Names : new[m].kind = host[m].kind
<1> DEFINE e == [host[n] EXCEPT !.data = data]
<1>1. host[n] = [kind |-> host[n].kind, data |-> host[n].data, ro |-> host[n].ro]
  BY DEF HostShape
<1>2. e = [kind |-> host[n].kind, data |-> data, ro |-> host[n].ro]
  <2>1. ASSUME NEW x, x = [kind |-> x.kind, data |-> x.data, ro |-> x.ro]
        PROVE  [x EXCEPT !.data = data]
                 = [kind |-> x.kind, data |-> data, ro |-> x.ro]
    BY <2>1
  <2>2. QED
    BY <1>1, <2>1
<1>3. new = [m \in Names |-> IF m = n THEN e ELSE host[m]]
  BY DEF HostShape
<1>4. EntryShape(e) /\ e.kind = host[n].kind
  BY <1>2 DEF EntryShape
<1> HIDE DEF e
<1>5. /\ HostShape(new) /\ new[n] = e
      /\ \A m \in Names \ {n} : new[m] = host[m]
  BY <1>3, <1>4 DEF HostShape, EntryShape
<1>6. QED
  BY <1>4, <1>5

\* A stream with other fields, but for the name.
LEMMA PendReplaced ==
  ASSUME NEW files, FilesShape(files), NEW h \in DOMAIN files, NEW pend,
         NEW new, new = [files EXCEPT ![h].pend = pend]
  PROVE  /\ FilesShape(new) /\ DOMAIN new = DOMAIN files
         /\ \A k \in DOMAIN files : /\ new[k].name = files[k].name
                                    /\ new[k].mode = files[k].mode
<1> DEFINE f == [files[h] EXCEPT !.pend = pend]
<1>1. files[h] = [name |-> files[h].name, mode |-> files[h].mode,
                  pos |-> files[h].pos, pend |-> files[h].pend]
  BY DEF FilesShape
<1>2. f = [name |-> files[h].name, mode |-> files[h].mode,
           pos |-> files[h].pos, pend |-> pend]
  <2>1. ASSUME NEW x, x = [name |-> x.name, mode |-> x.mode, pos |-> x.pos,
                           pend |-> x.pend]
        PROVE  [x EXCEPT !.pend = pend]
                 = [name |-> x.name, mode |-> x.mode,
                    pos |-> x.pos, pend |-> pend]
    BY <2>1
  <2>2. QED
    BY <1>1, <2>1
<1>3. new = [k \in DOMAIN files |-> IF k = h THEN f ELSE files[k]]
  BY DEF FilesShape
<1> HIDE DEF f
<1>4. DOMAIN new = DOMAIN files /\ new[h] = f
  BY <1>3
<1>5. \A k \in DOMAIN files \ {h} : new[k] = files[k]
  BY <1>3
<1>6. \A k \in DOMAIN files :
        files[k] = [name |-> files[k].name, mode |-> files[k].mode,
                    pos |-> files[k].pos, pend |-> files[k].pend]
  BY DEF FilesShape
<1>7. f = [name |-> f.name, mode |-> f.mode, pos |-> f.pos, pend |-> f.pend]
      /\ f.name = files[h].name /\ f.mode = files[h].mode
  BY <1>2
<1>8. \A k \in DOMAIN new :
        new[k] = [name |-> new[k].name, mode |-> new[k].mode,
                  pos |-> new[k].pos, pend |-> new[k].pend]
  BY <1>4, <1>5, <1>6, <1>7
<1>9. FilesShape(new)
  <2>1. new = [k \in DOMAIN new |-> new[k]]
    BY <1>3
  <2>2. QED
    BY <1>8, <2>1 DEF FilesShape
<1>10. QED
  BY <1>4, <1>5, <1>7, <1>9

\* A stream that is moved.
LEMMA PosReplaced ==
  ASSUME NEW files, FilesShape(files), NEW h \in DOMAIN files, NEW pos,
         NEW new, new = [files EXCEPT ![h].pos = pos]
  PROVE  /\ FilesShape(new) /\ DOMAIN new = DOMAIN files
         /\ \A k \in DOMAIN files : /\ new[k].name = files[k].name
                                    /\ new[k].mode = files[k].mode
<1> DEFINE f == [files[h] EXCEPT !.pos = pos]
<1>1. files[h] = [name |-> files[h].name, mode |-> files[h].mode,
                  pos |-> files[h].pos, pend |-> files[h].pend]
  BY DEF FilesShape
<1>2. f = [name |-> files[h].name, mode |-> files[h].mode,
           pos |-> pos, pend |-> files[h].pend]
  <2>1. ASSUME NEW x, x = [name |-> x.name, mode |-> x.mode, pos |-> x.pos,
                           pend |-> x.pend]
        PROVE  [x EXCEPT !.pos = pos]
                 = [name |-> x.name, mode |-> x.mode,
                    pos |-> pos, pend |-> x.pend]
    BY <2>1
  <2>2. QED
    BY <1>1, <2>1
<1>3. new = [k \in DOMAIN files |-> IF k = h THEN f ELSE files[k]]
  BY DEF FilesShape
<1> HIDE DEF f
<1>4. DOMAIN new = DOMAIN files /\ new[h] = f
  BY <1>3
<1>5. \A k \in DOMAIN files \ {h} : new[k] = files[k]
  BY <1>3
<1>6. \A k \in DOMAIN files :
        files[k] = [name |-> files[k].name, mode |-> files[k].mode,
                    pos |-> files[k].pos, pend |-> files[k].pend]
  BY DEF FilesShape
<1>7. f = [name |-> f.name, mode |-> f.mode, pos |-> f.pos, pend |-> f.pend]
      /\ f.name = files[h].name /\ f.mode = files[h].mode
  BY <1>2
<1>8. \A k \in DOMAIN new :
        new[k] = [name |-> new[k].name, mode |-> new[k].mode,
                  pos |-> new[k].pos, pend |-> new[k].pend]
  BY <1>4, <1>5, <1>6, <1>7
<1>9. FilesShape(new)
  <2>1. new = [k \in DOMAIN new |-> new[k]]
    BY <1>3
  <2>2. QED
    BY <1>8, <2>1 DEF FilesShape
<1>10. QED
  BY <1>4, <1>5, <1>7, <1>9

\* What a command that only moves bytes and positions leaves alone.
SameStreams(s, t) ==
  /\ DOMAIN t.files = DOMAIN s.files
  /\ \A k \in DOMAIN s.files : /\ t.files[k].name = s.files[k].name
                               /\ t.files[k].mode = s.files[k].mode
  /\ \A n \in Names : t.host[n].kind = s.host[n].kind

\* Flushed bytes go to the file of the stream, whose kind stays.
LEMMA FlushFacts ==
  ASSUME NEW s, NEW lost, CardInv(s, lost), NEW h \in DOMAIN s.files,
         NEW g, g = Flush(s, h)
  PROVE  /\ CardInv(g, lost) /\ Keeps(s, g) /\ g.up = s.up
         /\ SameStreams(s, g)
<1> DEFINE n == s.files[h].name
           host == [s.host EXCEPT ![n].data =
                      Splice(@, s.files[h].pend.at, s.files[h].pend.data)]
           files == [s.files EXCEPT ![h].pend = NoWrite]
           t == [s EXCEPT !.host = host]
<1>0. n \in Names /\ HostShape(s.host) /\ FilesShape(s.files)
  BY DEF CardInv, StreamsOpen, CardShape
<1>1. HostShape(host) /\ \A m \in Names : host[m].kind = s.host[m].kind
  <2> DEFINE d == Splice(s.host[n].data, s.files[h].pend.at,
                         s.files[h].pend.data)
  <2>1. host = [s.host EXCEPT ![n].data = d]
    BY <1>0 DEF HostShape
  <2> HIDE DEF d, host, n
  <2>2. QED
    BY <1>0, <2>1, DataReplaced
<1>2. /\ FilesShape(files) /\ DOMAIN files = DOMAIN s.files
      /\ \A k \in DOMAIN files : /\ files[k].name = s.files[k].name
                                 /\ files[k].mode = s.files[k].mode
  BY <1>0, PendReplaced
<1>3. g = [t EXCEPT !.files = files]
  <2>1. CardRecord(s)
    BY DEF CardInv, CardShape, CardRecord
  <2> HIDE DEF host, files
  <2>2. g = [s EXCEPT !.host = host, !.files = files]
    BY <2>1 DEF Flush, host, files, CardRecord
  <2>3. QED
    BY <2>1, <2>2 DEF CardRecord
<1> HIDE DEF host, files, n
<1>4. t.files = s.files /\ t.host = host
  BY DEF CardInv, CardShape
<1> HIDE DEF t
<1>5. StreamsOpen(t, lost)
  BY <1>1, <1>4 DEF CardInv, StreamsOpen
<1>6. CardInv(t, lost) /\ Keeps(s, t) /\ t.up = s.up
  BY <1>1, <1>5, HostFacts DEF t
<1>7. g.files = files /\ g.host = host
  BY <1>3, <1>4, <1>6 DEF CardInv, CardShape
<1>8. StreamsOpen(g, lost)
  BY <1>2, <1>4, <1>5, <1>7 DEF StreamsOpen
<1>9. CardInv(g, lost) /\ Keeps(t, g) /\ g.up = t.up
  BY <1>2, <1>3, <1>6, <1>8, FilesFacts
<1>10. QED
  BY <1>1, <1>2, <1>6, <1>7, <1>9 DEF Keeps, SameStreams

\* A closed stream is flushed and gone, the others stay.
LEMMA ClosedFacts ==
  ASSUME NEW s, NEW lost, CardInv(s, lost), NEW h, NEW t, t = Closed(s, h)
  PROVE  /\ CardInv(t, lost) /\ Keeps(s, t) /\ t.up = s.up
         /\ DOMAIN t.files = DOMAIN s.files \ {h}
         /\ \A n \in Names : t.host[n].kind = s.host[n].kind
<1>1. CASE h \notin DOMAIN s.files
  BY <1>1 DEF Closed, Keeps
<1>2. CASE h \in DOMAIN s.files
  <2> DEFINE g == Flush(s, h)
             files == [k \in DOMAIN g.files \ {h} |-> g.files[k]]
  <2>1. /\ CardInv(g, lost) /\ Keeps(s, g) /\ g.up = s.up /\ SameStreams(s, g)
    BY <1>2, FlushFacts
  <2>2. t = [g EXCEPT !.files = files]
    BY <1>2, <2>1 DEF Closed, CardInv, CardShape
  <2> HIDE DEF g
  <2>3. FilesShape(files) /\ DOMAIN files = DOMAIN g.files \ {h}
        /\ \A k \in DOMAIN files : files[k] = g.files[k]
    BY <2>1 DEF CardInv, CardShape, FilesShape
  <2> HIDE DEF files
  <2>4. t.files = files /\ t.host = g.host
    BY <2>1, <2>2 DEF CardInv, CardShape
  <2>5. StreamsOpen(t, lost)
    BY <2>1, <2>3, <2>4 DEF CardInv, StreamsOpen
  <2>6. CardInv(t, lost) /\ Keeps(g, t) /\ t.up = g.up
    BY <2>1, <2>2, <2>3, <2>5, FilesFacts
  <2>7. QED
    BY <2>1, <2>3, <2>4, <2>6 DEF Keeps, SameStreams
<1>3. QED
  BY <1>1, <1>2

\* A handle is given once: the number after it is the next one.
LEMMA GiveFacts ==
  ASSUME NEW s, NEW lost, CardInv(s, lost), NEW n \in Names, NEW mode,
         mode # "bad", s.host[n].kind = "file", NEW t, t = Give(s, n, mode)
  PROVE  /\ CardInv(t, lost) /\ t.left = s.left /\ t.up = s.up /\ t.ok
         /\ t.next = (s.next + 1) % HandleMod
         /\ t.reply.handle = s.next
<1> DEFINE h == s.next
           c == Closed(s, h)
           f == Stream(n, mode)
           files == With(c.files, h, f)
           next == (h + 1) % HandleMod
           g == [c EXCEPT !.next = next, !.files = files]
<1>1. /\ CardInv(c, lost) /\ Keeps(s, c) /\ c.up = s.up
      /\ \A m \in Names : c.host[m].kind = s.host[m].kind
  BY ClosedFacts
<1>2. t = Ok(g, Meta(g, h, n))
  BY <1>1 DEF Give, CardInv, CardShape
<1>3. next \in 0 .. HandleMod - 1
  BY HostFilesAssumption DEF CardInv, CardShape
<1>4. /\ DOMAIN files = {h} \cup DOMAIN c.files /\ files[h] = f
      /\ \A k \in DOMAIN c.files \ {h} : files[k] = c.files[k]
      /\ files = [k \in DOMAIN files |-> files[k]]
  BY DEF With
<1>stream. f.name = n /\ f.mode = mode
      /\ f = [name |-> f.name, mode |-> f.mode, pos |-> f.pos, pend |-> f.pend]
  BY DEF Stream
<1> HIDE DEF c, f, files, next
<1>5. FilesShape(files)
  <2>1. FilesShape(c.files)
    BY <1>1 DEF CardInv, CardShape
  <2>2. \A k \in DOMAIN files :
          files[k] = [name |-> files[k].name, mode |-> files[k].mode,
                      pos |-> files[k].pos, pend |-> files[k].pend]
    BY <1>stream, <1>4, <2>1 DEF FilesShape
  <2>3. QED
    BY <1>4, <2>2 DEF FilesShape
<1>6. CardRecord(g)
  <2>1. CardRecord(c)
    BY <1>1 DEF CardInv, CardShape, CardRecord
  <2>2. ASSUME NEW x, CardRecord(x), NEW y,
               y = [x EXCEPT !.next = next, !.files = files]
        PROVE  CardRecord(y)
    BY <2>2 DEF CardRecord
  <2>3. QED
    BY <2>1, <2>2
<1>7. /\ g.host = c.host /\ g.next = next /\ g.files = files
      /\ g.left = c.left /\ g.up = c.up /\ g.reply = c.reply
  BY <1>1 DEF CardInv, CardShape
<1> HIDE DEF g
<1>8. StreamsOpen(g, lost)
  BY <1>stream, <1>1, <1>4, <1>7 DEF CardInv, StreamsOpen
<1>9. CardInv(g, lost)
  BY <1>1, <1>3, <1>5, <1>6, <1>7, <1>8 DEF CardInv, CardShape, CardRecord
<1>10. ReplyKnown(Meta(g, h, n)) /\ Meta(g, h, n).handle = h
  BY DEF ReplyKnown, Meta
<1>11. /\ CardInv(t, lost) /\ Keeps(g, t) /\ t.up = g.up
       /\ t.ok /\ t.reply = Meta(g, h, n)
  BY <1>2, <1>9, <1>10, OkFacts
<1>12. QED
  BY <1>1, <1>7, <1>10, <1>11 DEF Keeps, next

-----------------------------------------------------------------------------
(* Commands that give no handle and take no entry of a search.             *)

\* What a call without a search leaves behind.
Plain(s, t, lost) == CardInv(t, lost) /\ Keeps(s, t) /\ (t.up => s.up)

\* What is open stays a file; another name may become anything.
LEMMA HostReplaced ==
  ASSUME NEW s, NEW lost, CardInv(s, lost), NEW n \in Names,
         NEW e, EntryShape(e),
         \/ e.kind = "file"
         \/ \A h \in DOMAIN s.files :
              s.files[h].name = n => s.files[h].mode = "bad",
         NEW t, t = [s EXCEPT !.host[n] = e]
  PROVE  /\ CardInv(t, lost) /\ Keeps(s, t) /\ t.up = s.up
         /\ t.files = s.files /\ t.host[n] = e
         /\ \A m \in Names \ {n} : t.host[m] = s.host[m]
<1> DEFINE host == [s.host EXCEPT ![n] = e]
<1>1. t = [s EXCEPT !.host = host]
  BY DEF CardInv, CardShape
<1>2. /\ HostShape(host) /\ host[n] = e
      /\ \A m \in Names \ {n} : host[m] = s.host[m]
  BY DEF CardInv, CardShape, HostShape, EntryShape
<1> HIDE DEF host
<1>3. t.host = host /\ t.files = s.files
  BY <1>1 DEF CardInv, CardShape
<1>4. StreamsOpen(t, lost)
  BY <1>2, <1>3 DEF CardInv, StreamsOpen
<1>5. CardInv(t, lost) /\ Keeps(s, t) /\ t.up = s.up
  BY ONLY <1>1, <1>2, <1>4, CardInv(s, lost), HostFacts
<1>6. QED
  BY <1>2, <1>3, <1>5

\* What the commands put in the place of an entry.
LEMMA ReplacedKinds ==
  /\ EntryShape(Nothing) /\ Nothing.kind = "none"
  /\ EntryShape(Directory) /\ Directory.kind = "dir"
  /\ \A data, ro : EntryShape(File(data, ro)) /\ File(data, ro).kind = "file"
BY DEF EntryShape, Nothing, Directory, File

\* A directory is made where nothing is.
LEMMA MkdirFacts ==
  ASSUME NEW s, NEW lost, CardInv(s, lost), NEW n \in Names,
         NEW t, t = Mkdir(s, n)
  PROVE  Plain(s, t, lost)
<1>1. CASE s.host[n].kind # "none"
  BY <1>1, FailFacts DEF Mkdir, Plain
<1>2. CASE s.host[n].kind = "none"
  <2> DEFINE g == [s EXCEPT !.host[n] = Directory]
  <2>1. \A h \in DOMAIN s.files :
          s.files[h].name = n => s.files[h].mode = "bad"
    BY <1>2 DEF CardInv, StreamsOpen
  <2>2. CardInv(g, lost) /\ Keeps(s, g) /\ g.up = s.up
    BY <2>1, HostReplaced, ReplacedKinds
  <2>3. t = Ok(g, NoReply) /\ ReplyKnown(NoReply)
    BY <1>2 DEF Mkdir, ReplyKnown, NoReply
  <2> HIDE DEF g
  <2>4. QED
    BY <2>2, <2>3, OkFacts DEF Plain, Keeps
<1>3. QED
  BY <1>1, <1>2

\* Nobody has the entry open.
LEMMA NotOpen ==
  ASSUME NEW s, NEW n, ~IsOpen(s, n)
  PROVE  \A h \in DOMAIN s.files : s.files[h].name = n => s.files[h].mode = "bad"
BY DEF IsOpen

\* What is removed nobody has open.
LEMMA RemoveFacts ==
  ASSUME NEW s, NEW lost, CardInv(s, lost), NEW n \in Names,
         NEW t, t = Remove(s, n)
  PROVE  Plain(s, t, lost)
<1>1. CASE s.host[n].kind = "none" \/ IsOpen(s, n)
  BY <1>1, FailFacts DEF Remove, Plain
<1>2. CASE ~(s.host[n].kind = "none" \/ IsOpen(s, n))
  <2> DEFINE g == [s EXCEPT !.host[n] = Nothing]
  <2>1. CardInv(g, lost) /\ Keeps(s, g) /\ g.up = s.up
    BY <1>2, NotOpen, HostReplaced, ReplacedKinds
  <2>2. t = Ok(g, NoReply) /\ ReplyKnown(NoReply)
    BY <1>2 DEF Remove, ReplyKnown, NoReply
  <2> HIDE DEF g
  <2>3. QED
    BY <2>1, <2>2, OkFacts DEF Plain, Keeps
<1>3. QED
  BY <1>1, <1>2

\* A file that is renamed nobody has open, under either name.
LEMMA RenameFacts ==
  ASSUME NEW s, NEW lost, CardInv(s, lost), NEW old \in Names,
         NEW new \in Names, old # new, NEW t, t = Rename(s, old, new)
  PROVE  Plain(s, t, lost)
<1> DEFINE may == /\ s.host[old].kind # "none" /\ ~IsOpen(s, old)
                  /\ \/ s.host[new].kind = "none"
                     \/ s.host[old].kind = "file" /\ s.host[new].kind = "file"
                        /\ ~s.host[new].ro /\ ~IsOpen(s, new)
           e == s.host[old]
           host == [s.host EXCEPT ![old] = Nothing, ![new] = e]
           g == [s EXCEPT !.host = host]
<1>1. CASE ~may
  BY <1>1, FailFacts DEF Rename, Plain
<1>2. CASE may
  <2>1. EntryShape(e)
    BY DEF CardInv, CardShape, HostShape, EntryShape
  <2>2. \A h \in DOMAIN s.files :
          s.files[h].name \in {old, new} => s.files[h].mode = "bad"
    BY <1>2, NotOpen DEF CardInv, StreamsOpen
  <2>3. /\ HostShape(host)
        /\ \A m \in Names \ {old, new} : host[m] = s.host[m]
    <3> DEFINE first == [s.host EXCEPT ![old] = Nothing]
    <3>1. HostShape(first) /\ \A m \in Names \ {old} : first[m] = s.host[m]
      BY EntryReplaced, ReplacedKinds DEF CardInv, CardShape
    <3>2. host = [first EXCEPT ![new] = e]
      BY DEF CardInv, CardShape, HostShape
    <3> HIDE DEF e, first
    <3>3. QED
      BY <2>1, <3>1, <3>2, EntryReplaced
  <2>4. t = Ok(g, NoReply) /\ ReplyKnown(NoReply)
    BY <1>2 DEF Rename, ReplyKnown, NoReply, CardInv, CardShape
  <2> HIDE DEF host
  <2>5. g.host = host /\ g.files = s.files
    BY DEF CardInv, CardShape
  <2>6. StreamsOpen(g, lost)
    BY <2>2, <2>3, <2>5 DEF CardInv, StreamsOpen
  <2>7. CardInv(g, lost) /\ Keeps(s, g) /\ g.up = s.up
    BY <2>3, <2>6, HostFacts
  <2> HIDE DEF g
  <2>8. QED
    BY <2>4, <2>7, OkFacts DEF Plain, Keeps
<1> HIDE DEF may
<1>3. QED
  BY <1>1, <1>2

\* The commands that only look.
LEMMA LookFacts ==
  ASSUME NEW s, NEW lost, CardInv(s, lost), NEW n
  PROVE  /\ Plain(s, GetAttr(s, n), lost) /\ Plain(s, ChDir(s, n), lost)
         /\ Plain(s, DiskInfo(s), lost)
<1>1. Plain(s, Fail(s), lost)
  BY FailFacts DEF Plain
<1>2. ASSUME NEW reply, ReplyKnown(reply)
      PROVE  Plain(s, Ok(s, reply), lost)
  BY <1>2, OkFacts DEF Plain
<1>3. \A size : ReplyKnown([kind |-> "attr", size |-> size])
  BY DEF ReplyKnown
<1>4. ReplyKnown(NoReply) /\ ReplyKnown([kind |-> "disk"])
  BY DEF ReplyKnown, NoReply
<1>5. Plain(s, GetAttr(s, n), lost)
  BY <1>1, <1>2, <1>3 DEF GetAttr
<1>6. QED
  BY <1>1, <1>2, <1>4, <1>5 DEF ChDir, DiskInfo

-----------------------------------------------------------------------------
(* Commands on streams.                                                    *)

\* What an open or a create leaves behind.
Opening(s, t, lost) ==
  /\ CardInv(t, lost) /\ t.left = s.left /\ t.up = s.up
  /\ IF t.ok THEN t.next = (s.next + 1) % HandleMod /\ t.reply.handle = s.next
     ELSE t.next = s.next

\* An open gives a stream of a file, or fails.
LEMMA OpenFacts ==
  ASSUME NEW s, NEW lost, CardInv(s, lost), NEW n \in Names,
         NEW t, t = OpenFile(s, n)
  PROVE  Opening(s, t, lost)
<1>1. CASE s.host[n].kind # "file"
  BY <1>1, FailFacts DEF OpenFile, Opening, Keeps
<1>2. CASE s.host[n].kind = "file"
  <2> DEFINE mode == IF s.host[n].ro THEN "r" ELSE "rw"
  <2>1. mode # "bad" /\ t = Give(s, n, mode)
    BY <1>2 DEF OpenFile
  <2> HIDE DEF mode
  <2>2. QED
    BY <1>2, <2>1, GiveFacts DEF Opening
<1>3. QED
  BY <1>1, <1>2

\* A create gives a stream of a file, new or emptied.
LEMMA CreateFacts ==
  ASSUME NEW s, NEW lost, CardInv(s, lost), NEW n \in Names,
         NEW t, t = Create(s, n)
  PROVE  Opening(s, t, lost)
<1>1. CASE s.host[n].kind = "dir" \/ s.host[n].ro
  BY <1>1, FailFacts DEF Create, Opening, Keeps
<1>2. CASE ~(s.host[n].kind = "dir" \/ s.host[n].ro)
  <2> DEFINE g == [s EXCEPT !.host[n] = File(<<>>, FALSE)]
  <2>1. EntryShape(File(<<>>, FALSE)) /\ File(<<>>, FALSE).kind = "file"
    BY ReplacedKinds
  <2>2. t = Give(g, n, "rw")
    BY <1>2 DEF Create
  <2>3. CardInv(g, lost) /\ Keeps(s, g) /\ g.up = s.up
    <3>1. ASSUME NEW e, EntryShape(e), e.kind = "file",
                 NEW u, u = [s EXCEPT !.host[n] = e]
          PROVE  CardInv(u, lost) /\ Keeps(s, u) /\ u.up = s.up
      BY <3>1, HostReplaced
    <3>2. QED
      BY <2>1, <3>1
  <2>4. g.host[n].kind = "file"
    BY <2>1 DEF CardInv, CardShape, HostShape
  <2> HIDE DEF g
  <2>5. /\ CardInv(t, lost) /\ t.left = g.left /\ t.up = g.up /\ t.ok
        /\ t.next = (g.next + 1) % HandleMod
        /\ t.reply.handle = g.next
    BY <2>2, <2>3, <2>4, GiveFacts
  <2>6. QED
    BY <2>3, <2>5 DEF Opening, Keeps
<1>3. QED
  BY <1>1, <1>2

\* A close takes one stream away.
LEMMA CloseFacts ==
  ASSUME NEW s, NEW lost, CardInv(s, lost), NEW h, NEW t, t = Close(s, h)
  PROVE  Plain(s, t, lost)
<1> DEFINE c == Closed(s, h)
<1>1. CardInv(c, lost) /\ Keeps(s, c) /\ c.up = s.up
  BY ClosedFacts
<1>2. t = Ok(c, NoReply) /\ ReplyKnown(NoReply)
  BY DEF Close, ReplyKnown, NoReply
<1> HIDE DEF c
<1>3. QED
  BY <1>1, <1>2, OkFacts DEF Plain, Keeps

\* A seek moves a stream, after what it has pending is written.
LEMMA SeekFacts ==
  ASSUME NEW s, NEW lost, CardInv(s, lost), NEW h, NEW pos,
         NEW t, t = Seek(s, h, pos)
  PROVE  Plain(s, t, lost)
<1>1. CASE h \notin DOMAIN s.files
  BY <1>1, FailFacts DEF Seek, Plain
<1>2. CASE h \in DOMAIN s.files
  <2> DEFINE g == Flush(s, h)
             files == [g.files EXCEPT ![h].pos = pos]
             u == [g EXCEPT !.files[h].pos = pos]
             reply == [kind |-> "pos", pos |-> pos]
  <2>1. /\ CardInv(g, lost) /\ Keeps(s, g) /\ g.up = s.up
        /\ h \in DOMAIN g.files
    BY <1>2, FlushFacts DEF SameStreams
  <2>2. t = Ok(u, reply) /\ ReplyKnown(reply)
    BY <1>2 DEF Seek, ReplyKnown
  <2> HIDE DEF g, reply
  <2>3. u = [g EXCEPT !.files = files]
    BY <2>1 DEF CardInv, CardShape
  <2>4. /\ FilesShape(files) /\ DOMAIN files = DOMAIN g.files
        /\ \A k \in DOMAIN files : /\ files[k].name = g.files[k].name
                                   /\ files[k].mode = g.files[k].mode
    BY <2>1, PosReplaced DEF CardInv, CardShape
  <2> HIDE DEF files, u
  <2>5. u.files = files /\ u.host = g.host
    BY <2>1, <2>3 DEF CardInv, CardShape
  <2>6. StreamsOpen(u, lost)
    BY <2>1, <2>4, <2>5 DEF CardInv, StreamsOpen
  <2>7. CardInv(u, lost) /\ Keeps(g, u) /\ u.up = g.up
    BY <2>1, <2>3, <2>4, <2>6, FilesFacts
  <2>8. QED
    BY <2>1, <2>2, <2>7, OkFacts DEF Plain, Keeps
<1>3. QED
  BY <1>1, <1>2

\* A seek from the end is a seek, and answers where it came to.
LEMMA SeekEndFacts ==
  ASSUME NEW s, NEW lost, CardInv(s, lost), NEW h, NEW off,
         NEW t, t = SeekEnd(s, h, off)
  PROVE  Plain(s, t, lost)
<1>1. CASE h \notin DOMAIN s.files
  BY <1>1, FailFacts DEF SeekEnd, Plain
<1>2. CASE h \in DOMAIN s.files
  <2>1. \E pos : t = Seek(s, h, pos)
    BY <1>2 DEF SeekEnd
  <2>2. QED
    BY <2>1, SeekFacts
<1>3. QED
  BY <1>1, <1>2

\* The exception of a read is over a file the host has not got any more.
LEMMA DownFacts ==
  ASSUME NEW s, NEW lost, CardInv(s, lost), lost, NEW t, t = [s EXCEPT !.up = FALSE]
  PROVE  CardInv(t, lost) /\ Keeps(s, t) /\ ~t.up
<1>1. CardRecord(t)
  BY DEF CardInv, CardShape, CardRecord
<1>2. /\ t.host = s.host /\ t.next = s.next /\ t.files = s.files
      /\ t.left = s.left /\ t.reply = s.reply /\ ~t.up
  BY DEF CardInv, CardShape
<1>3. QED
  BY <1>1, <1>2 DEF CardInv, CardShape, StreamsOpen, CardRecord, Keeps

\* A read only moves its stream, unless its exception ends the emulator.
LEMMA ReadFacts ==
  ASSUME NEW s, NEW lost, CardInv(s, lost), NEW h, NEW count,
         NEW t, t = Read(s, h, count)
  PROVE  Plain(s, t, lost)
<1>1. CASE h \notin DOMAIN s.files
  BY <1>1, FailFacts DEF Read, Plain
<1>2. CASE h \in DOMAIN s.files /\ s.host[s.files[h].name].kind = "none"
  <2>1. t = [s EXCEPT !.up = FALSE]
    BY <1>2 DEF Read
  <2>2. lost
    BY <1>2 DEF CardInv, StreamsOpen
  <2>3. QED
    BY <2>1, <2>2, DownFacts DEF Plain
<1>3. CASE h \in DOMAIN s.files /\ s.host[s.files[h].name].kind # "none"
  <2>1. \E data : t = Ok(s, [kind |-> "data", data |-> data])
    BY <1>3 DEF Read
  <2>2. \A data : ReplyKnown([kind |-> "data", data |-> data])
    BY DEF ReplyKnown
  <2>3. QED
    BY <2>1, <2>2, OkFacts DEF Plain
<1>4. QED
  BY <1>1, <1>2, <1>3

\* A write only adds to what is pending, or fails.
LEMMA WriteFacts ==
  ASSUME NEW s, NEW lost, CardInv(s, lost), NEW h, NEW data, NEW fits \in BOOLEAN,
         NEW t, t = Write(s, h, data, fits)
  PROVE  Plain(s, t, lost)
<1>1. CASE h \notin DOMAIN s.files
  BY <1>1, FailFacts DEF Write, Plain
<1>2. CASE h \in DOMAIN s.files
  <2> DEFINE pend == [at |-> s.files[h].pos, data |-> data]
             files == [s.files EXCEPT ![h].pend = pend]
             w == [s EXCEPT !.files[h].pend = pend]
             g == IF s.files[h].mode # "rw" THEN s ELSE w
             u == IF fits THEN g ELSE Flush(g, h)
             reply == [kind |-> "count", count |-> Len(data)]
  <2>1. t = Ok(u, reply) /\ ReplyKnown(reply)
    BY <1>2 DEF Write, ReplyKnown
  <2> HIDE DEF pend, reply
  <2>2. w = [s EXCEPT !.files = files]
    BY DEF CardInv, CardShape
  <2>3. /\ FilesShape(files) /\ DOMAIN files = DOMAIN s.files
        /\ \A k \in DOMAIN files : /\ files[k].name = s.files[k].name
                                   /\ files[k].mode = s.files[k].mode
    BY <1>2, PendReplaced DEF CardInv, CardShape
  <2> HIDE DEF files, w
  <2>4. w.files = files /\ w.host = s.host
    BY <2>2 DEF CardInv, CardShape
  <2>5. StreamsOpen(w, lost)
    BY <2>3, <2>4 DEF CardInv, StreamsOpen
  <2>6. CardInv(w, lost) /\ Keeps(s, w) /\ w.up = s.up
    BY <2>2, <2>3, <2>5, FilesFacts
  <2>7. CardInv(g, lost) /\ Keeps(s, g) /\ g.up = s.up /\ h \in DOMAIN g.files
    BY <1>2, <2>3, <2>4, <2>6 DEF Keeps
  <2> HIDE DEF g
  <2>8. CardInv(u, lost) /\ Keeps(s, u) /\ u.up = s.up
    BY <2>7, FlushFacts DEF Keeps
  <2> HIDE DEF u
  <2>9. QED
    BY <2>1, <2>8, OkFacts DEF Plain, Keeps
<1>3. QED
  BY <1>1, <1>2

\* What two commands in a row keep.
LEMMA PlainTransitive ==
  ASSUME NEW s, NEW t, NEW u, NEW lost, Plain(s, t, lost), Plain(t, u, lost)
  PROVE  Plain(s, u, lost)
BY DEF Plain, Keeps

-----------------------------------------------------------------------------
(* Searches, and a load.                                                   *)

\* A search has come to its end, met an entry that is gone, or taken one.
Taken(s, t) == \E e \in s.left : /\ e.kind = "entry" /\ t.ok /\ t.up = s.up
                                 /\ t.reply = e /\ t.left = s.left \ {e}
NoneLeft(s, t) == s.left = {} /\ t.left = {} /\ ~t.ok /\ t.up = s.up

\* The next entry is taken, or none is left, or it has gone and the emulator
\* ends.
LEMMA FindNextFacts ==
  ASSUME NEW s, NEW lost, CardInv(s, lost), NEW t, t = FindNext(s)
  PROVE  /\ CardInv(t, lost) /\ t.next = s.next
         /\ \/ Taken(s, t)
            \/ NoneLeft(s, t)
            \/ ~t.up /\ t.left = s.left /\ \E e \in s.left : e.kind = "gone"
<1>1. CASE s.left = {}
  BY <1>1, FailFacts DEF FindNext, NoneLeft, Keeps
<1>2. CASE s.left # {}
  <2> DEFINE e == CHOOSE x \in s.left : TRUE
             g == [s EXCEPT !.left = @ \ {e}]
  <2>1. e \in s.left
    BY <1>2
  <2>2. t = IF e.kind = "gone" THEN [s EXCEPT !.up = FALSE] ELSE Ok(g, e)
    BY <1>2 DEF FindNext, CardInv, CardShape
  <2> HIDE DEF e
  <2>3. /\ e.name \in Names /\ e.kind \in {"entry", "gone"}
        /\ e.kind = "gone" => lost
    BY <2>1 DEF CardInv, EntriesKnown
  <2>4. CASE e.kind = "gone"
    BY <2>1, <2>2, <2>3, <2>4, DownFacts DEF Keeps
  <2>5. CASE e.kind = "entry"
    <3>1. CardRecord(g) /\ g.left = s.left \ {e} /\ g.host = s.host
          /\ g.next = s.next /\ g.files = s.files /\ g.reply = s.reply
          /\ g.up = s.up
      <4>1. ASSUME NEW u, u = g
            PROVE  CardRecord(u) /\ u.left = s.left \ {e} /\ u.host = s.host
                   /\ u.next = s.next /\ u.files = s.files
                   /\ u.reply = s.reply /\ u.up = s.up
        BY <4>1 DEF CardInv, CardShape, CardRecord
      <4>2. QED
        BY <4>1
    <3> HIDE DEF g
    <3>2. CardInv(g, lost)
      BY <3>1 DEF CardInv, CardShape, StreamsOpen, EntriesKnown, CardRecord
    <3>3. ReplyKnown(e)
      BY <2>3 DEF ReplyKnown
    <3>4. t = Ok(g, e)
      BY <2>2, <2>5
    <3>5. CardInv(t, lost) /\ Keeps(g, t) /\ t.ok /\ t.reply = e /\ t.up = g.up
      BY <3>2, <3>3, <3>4, OkFacts
    <3>6. QED
      BY <2>1, <2>5, <3>1, <3>5 DEF Keeps, Taken
  <2>6. QED
    BY <2>3, <2>4, <2>5
<1>3. QED
  BY <1>1, <1>2

\* The entries of a new search are those the pattern matches, its first one
\* is taken.
Matched(s, pattern) == {n \in pattern : s.host[n].kind # "none"}

\* A search begins with the entries of the names it matches.
LEMMA FindFirstFacts ==
  ASSUME NEW s, NEW lost, CardInv(s, lost), NEW pattern, pattern \subseteq Names,
         NEW t, t = FindFirst(s, pattern)
  PROVE  /\ CardInv(t, lost) /\ t.next = s.next /\ t.up = s.up
         /\ ~t.ok => t.left = {}
         /\ t.ok => /\ t.reply.kind = "entry"
                    /\ t.reply.name \in Matched(s, pattern)
                    /\ NamesOf(t.left) = Matched(s, pattern) \ {t.reply.name}
<1> DEFINE left == {Entry(s, n) : n \in Matched(s, pattern)}
           g == [s EXCEPT !.left = left]
<1>1. t = FindNext(g)
  BY DEF FindFirst, Matched
<1>2. \A n : Entry(s, n).name = n /\ Entry(s, n).kind = "entry"
  BY DEF Entry
<1>3. /\ NamesOf(left) = Matched(s, pattern)
      /\ \A e \in left : e.kind = "entry" /\ e.name \in Names
      /\ \A e, f \in left : e.name = f.name => e = f
  BY <1>2 DEF NamesOf, Matched
<1> HIDE DEF left
<1>4. CardRecord(g) /\ g.left = left /\ g.host = s.host
      /\ g.next = s.next /\ g.files = s.files /\ g.reply = s.reply
      /\ g.up = s.up
  <2>1. ASSUME NEW u, u = g
        PROVE  CardRecord(u) /\ u.left = left /\ u.host = s.host
               /\ u.next = s.next /\ u.files = s.files
               /\ u.reply = s.reply /\ u.up = s.up
    BY <2>1 DEF CardInv, CardShape, CardRecord
  <2>2. QED
    BY <2>1
<1> HIDE DEF g
<1>5. CardInv(g, lost)
  BY <1>3, <1>4 DEF CardInv, CardShape, StreamsOpen, EntriesKnown, CardRecord
<1>6. /\ CardInv(t, lost) /\ t.next = g.next
      /\ Taken(g, t) \/ NoneLeft(g, t)
  BY <1>1, <1>3, <1>4, <1>5, FindNextFacts
<1>7. CASE NoneLeft(g, t)
  BY <1>4, <1>6, <1>7 DEF NoneLeft
<1>8. CASE Taken(g, t)
  <2>1. PICK e \in left : /\ e.kind = "entry" /\ t.ok /\ t.up = g.up
                          /\ t.reply = e /\ t.left = left \ {e}
    BY <1>4, <1>8 DEF Taken
  <2>2. NamesOf(left \ {e}) = NamesOf(left) \ {e.name}
    BY <1>3 DEF NamesOf
  <2>3. e.name \in NamesOf(left)
    BY DEF NamesOf
  <2>4. QED
    BY <1>3, <1>4, <1>6, <2>1, <2>2, <2>3
<1>9. QED
  BY <1>6, <1>7, <1>8

\* A load finds every stream and every entry again, or it loses some.
LEMMA LoadFacts ==
  ASSUME NEW s, NEW lost \in BOOLEAN, CardInv(s, lost),
         NEW card, SavedCard(card), NEW t, t = Load(s, card)
  PROVE  /\ CardInv(t, lost \/ Loses(t))
         /\ t.next = card.next /\ t.reply = card.reply /\ t.up = s.up
         /\ NamesOf(t.left) = NamesOf(card.left)
<1> DEFINE host == [n \in Names |-> [s.host[n] EXCEPT !.data = Emptied(s)[n]]]
           now == [s EXCEPT !.host = host]
           Usable(n) == host[n].kind = "file" /\ ~host[n].ro
           Again(n) == IF host[n].kind = "none"
                       THEN [kind |-> "gone", name |-> n] ELSE Entry(now, n)
           f(h) == [card.files[h] EXCEPT
                      !.mode = IF Usable(card.files[h].name) THEN "rw"
                               ELSE "bad",
                      !.pend = NoWrite]
           files == [h \in DOMAIN card.files |-> f(h)]
           left == {Again(e.name) : e \in card.left}
<1>1. HostShape(host) /\ \A n \in Names : host[n].kind = s.host[n].kind
  <2>1. ASSUME NEW x, EntryShape(x), NEW d, NEW y, y = [x EXCEPT !.data = d]
        PROVE  EntryShape(y) /\ y.kind = x.kind
    BY <2>1 DEF EntryShape
  <2>2. \A n \in Names : EntryShape(s.host[n])
    BY DEF CardInv, CardShape, HostShape, EntryShape
  <2>3. \A n \in Names : EntryShape(host[n]) /\ host[n].kind = s.host[n].kind
    BY <2>1, <2>2
  <2>4. QED
    BY <2>3 DEF HostShape, EntryShape
<1>2. /\ FilesShape(files) /\ DOMAIN files = DOMAIN card.files
      /\ \A h \in DOMAIN files :
           /\ files[h].name = card.files[h].name
           /\ files[h].mode = IF Usable(files[h].name) THEN "rw" ELSE "bad"
  <2> HIDE DEF host
  <2>1. \A h \in DOMAIN card.files :
          card.files[h] = [name |-> card.files[h].name,
                           mode |-> card.files[h].mode,
                           pos |-> card.files[h].pos,
                           pend |-> card.files[h].pend]
    BY DEF SavedCard, FilesShape
  <2>2. ASSUME NEW h \in DOMAIN card.files
        PROVE  /\ f(h) = [name |-> f(h).name, mode |-> f(h).mode,
                          pos |-> f(h).pos, pend |-> f(h).pend]
               /\ f(h).name = card.files[h].name
               /\ f(h).mode = IF Usable(card.files[h].name) THEN "rw"
                              ELSE "bad"
    <3> DEFINE m == IF Usable(card.files[h].name) THEN "rw" ELSE "bad"
               x == card.files[h]
               y == f(h)
    <3>1. /\ x = [name |-> x.name, mode |-> x.mode, pos |-> x.pos,
                  pend |-> x.pend]
          /\ y = [x EXCEPT !.mode = m, !.pend = NoWrite]
      BY <2>1
    <3> HIDE DEF m, x, y
    <3>2. /\ y = [name |-> y.name, mode |-> y.mode, pos |-> y.pos,
                  pend |-> y.pend]
          /\ y.name = x.name /\ y.mode = m
      BY <3>1
    <3>3. QED
      BY <3>2 DEF m, x, y
  <2> HIDE DEF f
  <2>3. QED
    BY <2>2 DEF FilesShape
<1>3. t = [now EXCEPT !.next = card.next, !.ok = card.ok,
                      !.reply = card.reply, !.files = files, !.left = left]
  BY DEF Load
<1> HIDE DEF host, files
<1>4. CardRecord(now) /\ now.host = host /\ now.up = s.up
  <2>1. ASSUME NEW u, u = now
        PROVE  CardRecord(u) /\ u.host = host /\ u.up = s.up
    BY <2>1 DEF CardInv, CardShape, CardRecord
  <2>2. QED
    BY <2>1
<1>5. /\ NamesOf(left) = NamesOf(card.left)
      /\ \A e \in left : e.name \in Names /\ e.kind \in {"entry", "gone"}
      /\ \A e, g \in left : e.name = g.name => e = g
  <2>1. \A n : Again(n).name = n /\ Again(n).kind \in {"entry", "gone"}
    BY DEF Entry
  <2> HIDE DEF Again
  <2>2. QED
    BY <2>1 DEF SavedCard, NamesOf
<1> HIDE DEF left, now
<1>6. CardRecord(t) /\ t.host = host /\ t.up = s.up /\ t.next = card.next
      /\ t.reply = card.reply /\ t.files = files /\ t.left = left
  BY <1>3, <1>4 DEF CardRecord
<1>7. CardShape(t)
  <2>1. s.up \in BOOLEAN
    BY DEF CardInv, CardShape
  <2>2. QED
    BY <1>1, <1>2, <1>6, <2>1 DEF CardShape, CardRecord, SavedCard
<1>8. StreamsOpen(t, lost \/ Loses(t))
  BY <1>2, <1>6 DEF StreamsOpen, Loses, SavedCard
<1>9. EntriesKnown(t.left, lost \/ Loses(t))
  BY <1>5, <1>6 DEF EntriesKnown, Loses
<1>10. QED
  BY <1>5, <1>6, <1>7, <1>8, <1>9 DEF CardInv, SavedCard

-----------------------------------------------------------------------------
(* What a search has left to find.                                         *)

\* What is left to find is finite, as what a search matches is.
LEMMA RestFinite ==
  ASSUME NEW x, IsFiniteSet(x.match), NEW rest, Complete(x, rest)
  PROVE  /\ rest \subseteq x.match /\ IsFiniteSet(rest)
         /\ Cardinality(rest) \in Nat
<1>1. rest \subseteq x.match
  BY DEF Complete
<1>2. IsFiniteSet(rest)
  BY <1>1, FS_Subset
<1>3. QED
  BY <1>1, <1>2, FS_CardinalityType

\* A name that is left is found next.
LEMMA NextFound ==
  ASSUME NEW x, IsFiniteSet(x.match), x.found \in Seq(Found),
         NEW rest, Complete(x, rest), NEW n \in rest,
         NEW y, y.match = x.match, y.found = Append(x.found, n)
  PROVE  Complete(y, rest \ {n})
<1>1. IsFiniteSet(rest) /\ Cardinality(rest) \in Nat
  BY RestFinite
<1>2. /\ IsFiniteSet(rest \ {n})
      /\ Cardinality(rest \ {n}) = Cardinality(rest) - 1
  BY <1>1, FS_RemoveElement
<1>3. Len(y.found) = Len(x.found) + 1 /\ Len(x.found) \in Nat
  OBVIOUS
<1>4. {y.found[k] : k \in DOMAIN y.found}
        = {x.found[k] : k \in DOMAIN x.found} \cup {n}
  <2>1. /\ DOMAIN y.found = DOMAIN x.found \cup {Len(x.found) + 1}
        /\ \A k \in DOMAIN x.found : y.found[k] = x.found[k]
        /\ y.found[Len(x.found) + 1] = n
    OBVIOUS
  <2>2. QED
    BY <2>1
<1>5. QED
  BY SMTT(30), <1>1, <1>2, <1>3, <1>4 DEF Complete

\* A search that begins: it has found nothing, or the first of what it
\* matches.
LEMMA BegunSound ==
  ASSUME NEW m, IsFiniteSet(m), NEW x, x.match = m
  PROVE  /\ x.found = <<>> => Complete(x, m)
         /\ \A n \in m : x.found = <<n>> => Complete(x, m \ {n})
<1>1. Cardinality(m) \in Nat
  BY FS_CardinalityType
<1>2. ASSUME x.found = <<>>
      PROVE  Complete(x, m)
  BY <1>1, <1>2 DEF Complete
<1>3. ASSUME NEW n \in m, x.found = <<n>>
      PROVE  Complete(x, m \ {n})
  <2>1. Cardinality(m \ {n}) = Cardinality(m) - 1
    BY FS_RemoveElement
  <2>2. Len(x.found) = 1 /\ {x.found[k] : k \in DOMAIN x.found} = {n}
    BY <1>3
  <2>3. QED
    BY <1>1, <2>1, <2>2 DEF Complete
<1>4. QED
  BY <1>2, <1>3

\* A call that takes the reply leaves what searches have found alone.
LEMMA InterruptedSound ==
  ASSUME SearchType(search), label \in BOOLEAN,
         NEW left, NEW old, NEW reply, SearchesSound(search, left, old, label)
  PROVE  SearchType(Interrupted) /\ SearchesSound(Interrupted, left, reply, label)
<1>1. ASSUME NEW a \in Areas
      PROVE  /\ Interrupted[a] \in SearchRecord
             /\ Interrupted[a].match = search[a].match
             /\ Interrupted[a].found = search[a].found
             /\ Interrupted[a].done <=> search[a].done
             /\ Interrupted[a].alone <=> /\ search[a].alone
                                         /\ search[a].done \/ ~label
  BY <1>1 DEF SearchType, SearchRecord, Interrupted
<1>2. SearchType(Interrupted)
  <2>1. Interrupted = [a \in Areas |-> Interrupted[a]]
    BY DEF Interrupted
  <2>2. QED
    BY <1>1, <2>1 DEF SearchType, SearchRecord
<1>3. ASSUME NEW a \in Areas, Interrupted[a].alone
      PROVE  IF Interrupted[a].done THEN Complete(Interrupted[a], {})
             ELSE ~label /\ Complete(Interrupted[a], NamesOf(left))
  <2>1. search[a].alone /\ (search[a].done \/ ~label)
    BY <1>1, <1>3
  <2>2. \A rest : Complete(search[a], rest) => Complete(Interrupted[a], rest)
    BY <1>1 DEF Complete
  <2>3. CASE search[a].done
    <3>1. Complete(search[a], {})
      BY <2>1, <2>3 DEF SearchesSound
    <3>2. QED
      BY <1>1, <2>2, <2>3, <3>1
  <2>4. CASE ~search[a].done
    <3>1. ~label /\ Rest(left, old, label) = NamesOf(left)
      BY <2>1, <2>4 DEF Rest
    <3>2. Complete(search[a], NamesOf(left))
      BY <2>1, <2>4, <3>1 DEF SearchesSound
    <3>3. QED
      BY <1>1, <2>2, <2>4, <3>1, <3>2
  <2>5. QED
    BY <2>3, <2>4
<1>4. QED
  BY <1>1, <1>2, <1>3 DEF SearchesSound, InProgress, Rest

-----------------------------------------------------------------------------
(* The system file table.                                                  *)

SlotShape(e) ==
  /\ e = [open |-> e.open, handle |-> e.handle, name |-> e.name,
          pos |-> e.pos, size |-> e.size]
  /\ e.open \in Nat /\ e.handle \in Nat

\* An entry that keeps its handle, and is open only if it was.
LEMMA SameHandles ==
  ASSUME NEW table, NEW new, NEW next, HandlesBelow(table, next),
         \A j \in Slots : new[j].open > 0 => /\ table[j].open > 0
                                             /\ new[j].handle = table[j].handle
  PROVE  HandlesBelow(new, next)
BY DEF HandlesBelow

\* An entry that takes the next handle.
LEMMA NextHandle ==
  ASSUME NEW table, TableType(table), NEW next \in Nat, HandlesBelow(table, next),
         NEW i \in Slots, NEW new, TableType(new), new[i].handle = next,
         \A j \in Slots \ {i} : new[j] = table[j]
  PROVE  HandlesBelow(new, next + 1)
<1>1. \A j \in Slots : table[j].handle \in Nat
  BY DEF TableType
<1>2. \A j \in Slots \ {i} : /\ new[j].handle = table[j].handle
                              /\ new[j].open > 0 => new[j].handle < next
  BY DEF HandlesBelow
<1>3. QED
  BY <1>1, <1>2 DEF HandlesBelow

-----------------------------------------------------------------------------
(* Calls.                                                                  *)

Lost == "lost" \in mishap

\* What is lost stays lost.
LEMMA LostMonotone ==
  ASSUME NEW s, NEW lost \in BOOLEAN, NEW more \in BOOLEAN, lost => more,
         CardInv(s, lost)
  PROVE  CardInv(s, more)
BY DEF CardInv, StreamsOpen, EntriesKnown

\* What is saved stays sound as long as mishaps are remembered.
LEMMA SavedStays ==
  ASSUME SavedInv, saved' = saved, mishap \subseteq mishap'
  PROVE  SavedInv'
BY DEF SavedInv

\* Every call but those of searches: what the card and the table are left
\* with makes up the invariant.
LEMMA CallFacts ==
  ASSUME RedirectorInv, saved' = saved, label' = label, search' = Interrupted,
         mishap \subseteq mishap', CardInv(hfs', Lost), hfs'.left = hfs.left,
         TableType(sft'),
         "wrapped" \notin mishap' => HandlesBelow(sft', hfs'.next)
  PROVE  RedirectorInv'
<1>1. CardInv(hfs', Lost')
  <2>1. Lost \in BOOLEAN /\ Lost' \in BOOLEAN /\ (Lost => Lost')
    BY DEF Lost
  <2>2. QED
    BY <2>1, LostMonotone
<1>2. SearchType(search') /\ SearchesSound(search', hfs'.left, hfs'.reply, label')
  BY InterruptedSound DEF RedirectorInv
<1>3. SavedInv'
  BY SavedStays DEF RedirectorInv
<1>4. QED
  BY <1>1, <1>2, <1>3 DEF RedirectorInv, Lost

\* A call that gives no handle.
LEMMA PlainCallFacts ==
  ASSUME RedirectorInv, saved' = saved, label' = label, search' = Interrupted,
         mishap \subseteq mishap', Plain(hfs, hfs', Lost), TableType(sft'),
         \A j \in Slots : sft'[j].open > 0 => /\ sft[j].open > 0
                                              /\ sft'[j].handle = sft[j].handle
  PROVE  RedirectorInv'
<1>1. CardInv(hfs', Lost) /\ hfs'.left = hfs.left /\ hfs'.next = hfs.next
  BY DEF Plain, Keeps
<1>2. "wrapped" \notin mishap' => HandlesBelow(sft', hfs'.next)
  BY <1>1, SameHandles DEF RedirectorInv
<1>3. QED
  BY <1>1, <1>2, CallFacts

\* A call that changes no entry.
LEMMA NameCallFacts ==
  ASSUME RedirectorInv, saved' = saved, label' = label, search' = Interrupted,
         mishap' = mishap, sft' = sft, Plain(hfs, hfs', Lost)
  PROVE  RedirectorInv'
BY PlainCallFacts DEF RedirectorInv

\* An edited entry keeps its handle.
KeepsHandles(new) ==
  /\ TableType(new)
  /\ \A j \in Slots : new[j].open > 0 => /\ sft[j].open > 0
                                         /\ new[j].handle = sft[j].handle

\* An open entry that is changed but for its handle.
LEMMA EntryEdited ==
  ASSUME TableType(sft), NEW i \in Slots, sft[i].open > 0,
         NEW e, SlotShape(e), e.handle = sft[i].handle,
         NEW new, new = [sft EXCEPT ![i] = e]
  PROVE  KeepsHandles(new)
<1>1. new = [j \in Slots |-> IF j = i THEN e ELSE sft[j]]
  BY DEF TableType
<1>2. new[i] = e /\ \A j \in Slots \ {i} : new[j] = sft[j]
  BY <1>1
<1>3. \A j \in Slots : SlotShape(new[j])
  BY <1>2 DEF TableType, SlotShape
<1>4. TableType(new)
  BY <1>1, <1>3 DEF TableType, SlotShape
<1>5. QED
  BY <1>2, <1>4 DEF KeepsHandles

\* The number of its owners and its position are such changes.
LEMMA TableEdited ==
  ASSUME TableType(sft), NEW i \in Slots, sft[i].open > 0, NEW a
  PROVE  /\ a \in Nat => KeepsHandles([sft EXCEPT ![i].open = a])
         /\ KeepsHandles([sft EXCEPT ![i].pos = a])
<1>1. SlotShape(sft[i])
  BY DEF TableType, SlotShape
<1>2. ASSUME a \in Nat
      PROVE  KeepsHandles([sft EXCEPT ![i].open = a])
  <2> DEFINE e == [sft[i] EXCEPT !.open = a]
             new == [sft EXCEPT ![i].open = a]
  <2>1. SlotShape(e) /\ e.handle = sft[i].handle
    <3>1. ASSUME NEW x, SlotShape(x), NEW y, y = [x EXCEPT !.open = a]
          PROVE  SlotShape(y) /\ y.handle = x.handle
      BY <1>2, <3>1 DEF SlotShape
    <3>2. QED
      BY <1>1, <3>1
  <2>2. new = [sft EXCEPT ![i] = e]
    BY DEF TableType
  <2> HIDE DEF e, new
  <2>3. KeepsHandles(new)
    BY <2>1, <2>2, EntryEdited
  <2>4. QED
    BY <2>3 DEF new
<1>3. KeepsHandles([sft EXCEPT ![i].pos = a])
  <2> DEFINE e == [sft[i] EXCEPT !.pos = a]
             new == [sft EXCEPT ![i].pos = a]
  <2>1. SlotShape(e) /\ e.handle = sft[i].handle
    <3>1. ASSUME NEW x, SlotShape(x), NEW y, y = [x EXCEPT !.pos = a]
          PROVE  SlotShape(y) /\ y.handle = x.handle
      BY <3>1 DEF SlotShape
    <3>2. QED
      BY <1>1, <3>1
  <2>2. new = [sft EXCEPT ![i] = e]
    BY DEF TableType
  <2> HIDE DEF e, new
  <2>3. KeepsHandles(new)
    BY <2>1, <2>2, EntryEdited
  <2>4. QED
    BY <2>3 DEF new
<1>4. QED
  BY <1>2, <1>3

-----------------------------------------------------------------------------
(* Every action keeps the invariant.                                       *)

\* Calls on names.
LEMMA NameCallKeepsInv ==
  ASSUME RedirectorInv,
         \/ \E n \in Names :
              \/ MakeDir(n) \/ ChangeDir(n) \/ GetAttributes(n) \/ Delete(n)
              \/ \E m \in Names : RenameTo(n, m)
         \/ GetDiskInfo
  PROVE  RedirectorInv'
<1>1. CardInv(hfs, Lost)
  BY DEF RedirectorInv, Lost
<1>2. SUFFICES /\ Plain(hfs, hfs', Lost) /\ saved' = saved /\ label' = label
               /\ search' = Interrupted /\ mishap' = mishap /\ sft' = sft
  BY NameCallFacts
<1>3. ASSUME NEW n \in Names, MakeDir(n)
      PROVE  Plain(hfs, hfs', Lost)
  BY <1>1, <1>3, MkdirFacts DEF MakeDir, Simple
<1>4. ASSUME NEW n \in Names, ChangeDir(n) \/ GetAttributes(n) \/ GetDiskInfo
      PROVE  Plain(hfs, hfs', Lost)
  BY <1>1, <1>4, LookFacts DEF ChangeDir, GetAttributes, GetDiskInfo, Simple
<1>5. ASSUME GetDiskInfo
      PROVE  Plain(hfs, hfs', Lost)
  BY <1>1, <1>5, LookFacts DEF GetDiskInfo, Simple
<1>6. ASSUME NEW n \in Names, Delete(n)
      PROVE  Plain(hfs, hfs', Lost)
  BY <1>1, <1>6, RemoveFacts DEF Delete, Simple
<1>7. ASSUME NEW n \in Names, NEW m \in Names, RenameTo(n, m)
      PROVE  Plain(hfs, hfs', Lost)
  BY <1>1, <1>7, RenameFacts DEF RenameTo, Simple
<1>8. /\ saved' = saved /\ label' = label /\ search' = Interrupted
      /\ mishap' = mishap /\ sft' = sft
  BY DEF MakeDir, ChangeDir, GetAttributes, Delete, RenameTo, GetDiskInfo,
         Simple, Call
<1>9. QED
  BY <1>3, <1>4, <1>5, <1>6, <1>7, <1>8

\* An entry that is opened takes the next handle, which is a new one unless
\* the number has wrapped.
LEMMA OpenCallKeepsInv ==
  ASSUME RedirectorInv, NEW i \in Slots, NEW n \in Names,
         Open(i, n) \/ CreateNew(i, n)
  PROVE  RedirectorInv'
<1>1. CardInv(hfs, Lost) /\ TableType(sft)
  BY DEF RedirectorInv, Lost
<1>2. Opening(hfs, hfs', Lost)
  BY <1>1, OpenFacts, CreateFacts DEF Open, CreateNew, OpenCall
<1>3. /\ FillSft(i, n, hfs') /\ search' = Interrupted /\ saved' = saved
      /\ label' = label /\ mishap \subseteq mishap'
      /\ Wrapped(hfs') \subseteq mishap'
  BY DEF Open, CreateNew, OpenCall, Call
<1>4. hfs.next \in 0 .. HandleMod - 1 /\ HandleMod \in Nat
  BY <1>1, HostFilesAssumption DEF CardInv, CardShape
<1>5. CASE ~hfs'.ok
  <2>1. sft' = sft /\ hfs'.next = hfs.next
    BY <1>2, <1>3, <1>5 DEF FillSft, Opening
  <2>2. "wrapped" \notin mishap' => HandlesBelow(sft', hfs'.next)
    BY <1>3, <2>1 DEF RedirectorInv
  <2>3. QED
    BY <1>1, <1>2, <1>3, <2>1, <2>2, CallFacts DEF Opening
<1>6. CASE hfs'.ok
  <2> DEFINE e == [open |-> 1, name |-> n, pos |-> 0,
                   handle |-> hfs'.reply.handle, size |-> hfs'.reply.size]
  <2>1. /\ hfs'.next = (hfs.next + 1) % HandleMod
        /\ hfs'.reply.handle = hfs.next
    BY <1>2, <1>6 DEF Opening
  <2>2. sft' = [j \in Slots |-> IF j = i THEN e ELSE sft[j]]
    BY <1>1, <1>3, <1>6 DEF FillSft, TableType
  <2>3. SlotShape(e) /\ e.handle = hfs.next
    BY <1>4, <2>1 DEF SlotShape
  <2> HIDE DEF e
  <2>4. /\ TableType(sft') /\ sft'[i] = e
        /\ \A j \in Slots \ {i} : sft'[j] = sft[j]
    <3>1. sft'[i] = e /\ \A j \in Slots \ {i} : sft'[j] = sft[j]
      BY <2>2
    <3>2. \A j \in Slots : SlotShape(sft'[j])
      BY <1>1, <2>3, <3>1 DEF TableType, SlotShape
    <3>3. QED
      BY <2>2, <3>1, <3>2 DEF TableType, SlotShape
  <2>5. ASSUME "wrapped" \notin mishap'
        PROVE  HandlesBelow(sft', hfs'.next)
    <3>1. hfs'.next # 0
      BY <1>3, <2>5 DEF Wrapped
    <3>2. hfs'.next = hfs.next + 1
      BY <1>4, <2>1, <3>1
    <3>3. HandlesBelow(sft, hfs.next)
      BY <1>3, <2>5 DEF RedirectorInv
    <3>4. QED
      BY <1>1, <1>4, <2>3, <2>4, <3>2, <3>3, NextHandle
  <2>6. QED
    BY <1>2, <1>3, <2>4, <2>5, CallFacts DEF Opening
<1>7. QED
  BY <1>5, <1>6

\* Calls on open files.
LEMMA FileCallKeepsInv ==
  ASSUME RedirectorInv, NEW i \in Slots,
         \/ CloseFile(i)
         \/ \E count \in Counts : ReadFile(i, count)
         \/ \E data \in Data, fits \in BOOLEAN : WriteFile(i, data, fits)
         \/ \E off \in {0, PosMod - 1} : SeekFromEnd(i, off)
  PROVE  RedirectorInv'
<1>1. CardInv(hfs, Lost) /\ TableType(sft)
  BY DEF RedirectorInv, Lost
<1>2. KeepsHandles(sft)
  BY <1>1 DEF KeepsHandles
<1>3. SUFFICES Plain(hfs, hfs', Lost) /\ KeepsHandles(sft')
  <2>1. /\ saved' = saved /\ label' = label /\ search' = Interrupted
        /\ mishap \subseteq mishap'
    BY DEF CloseFile, ReadFile, WriteFile, SeekFromEnd, Call
  <2>2. QED
    BY <1>3, <2>1, PlainCallFacts DEF KeepsHandles
<1>4. CASE CloseFile(i)
  <2>1. sft[i].open > 0 /\ sft[i].open - 1 \in Nat
    BY <1>1, <1>4 DEF CloseFile, TableType
  <2>2. sft' = [sft EXCEPT ![i].open = sft[i].open - 1]
    BY <1>1, <1>4 DEF CloseFile, TableType
  <2>3. KeepsHandles(sft')
    BY <1>1, <2>1, <2>2, TableEdited
  <2>4. QED
    BY <1>1, <1>4, <2>3, CloseFacts DEF CloseFile
<1>5. ASSUME NEW count \in Counts, ReadFile(i, count)
      PROVE  Plain(hfs, hfs', Lost) /\ KeepsHandles(sft')
  <2> DEFINE k == Seek(hfs, sft[i].handle, sft[i].pos)
  <2>1. Plain(hfs, k, Lost)
    BY <1>1, SeekFacts
  <2>2. hfs' = Read(k, sft[i].handle, count) /\ sft[i].open > 0
    BY <1>5 DEF ReadFile
  <2>3. \/ sft' = sft
        \/ \E pos : sft' = [sft EXCEPT ![i].pos = pos]
    BY <1>1, <1>5 DEF ReadFile, TableType
  <2> HIDE DEF k
  <2>4. Plain(k, hfs', Lost)
    BY <2>1, <2>2, ReadFacts DEF Plain
  <2>5. KeepsHandles(sft')
    BY ZenonT(30), <1>1, <1>2, <2>2, <2>3, TableEdited
  <2>6. QED
    BY <2>1, <2>4, <2>5, PlainTransitive
<1>6. ASSUME NEW data \in Data, NEW fits \in BOOLEAN, WriteFile(i, data, fits)
      PROVE  Plain(hfs, hfs', Lost) /\ KeepsHandles(sft')
  <2> DEFINE k == Seek(hfs, sft[i].handle, sft[i].pos)
  <2>1. Plain(hfs, k, Lost)
    BY <1>1, SeekFacts
  <2>2. hfs' = Write(k, sft[i].handle, data, fits) /\ sft[i].open > 0
    BY <1>6 DEF WriteFile
  <2>3. sft' = sft \/ KeepsHandles(sft')
    <3> DEFINE end == sft[i].pos + Len(data)
               size == IF end > sft[i].size THEN end ELSE sft[i].size
               e == [sft[i] EXCEPT !.pos = end, !.size = size]
    <3>1. sft' = sft \/ sft' = [sft EXCEPT ![i] = e]
      BY <1>1, <1>6 DEF WriteFile, TableType
    <3> HIDE DEF end, size
    <3>2. SlotShape(e) /\ e.handle = sft[i].handle
      <4>1. SlotShape(sft[i])
        BY <1>1 DEF TableType, SlotShape
      <4>2. ASSUME NEW x, SlotShape(x),
                   NEW y, y = [x EXCEPT !.pos = end, !.size = size]
            PROVE  SlotShape(y) /\ y.handle = x.handle
        BY <4>2 DEF SlotShape
      <4>3. QED
        BY <4>1, <4>2
    <3> HIDE DEF e
    <3>3. QED
      BY <1>1, <2>2, <3>1, <3>2, EntryEdited
  <2> HIDE DEF k
  <2>4. Plain(k, hfs', Lost)
    BY <2>1, <2>2, WriteFacts DEF Plain
  <2>5. KeepsHandles(sft')
    BY <1>2, <2>3
  <2>6. QED
    BY <2>1, <2>4, <2>5, PlainTransitive
<1>7. ASSUME NEW off \in {0, PosMod - 1}, SeekFromEnd(i, off)
      PROVE  Plain(hfs, hfs', Lost) /\ KeepsHandles(sft')
  <2>1. hfs' = SeekEnd(hfs, sft[i].handle, off) /\ sft[i].open > 0
    BY <1>7 DEF SeekFromEnd
  <2>2. \/ sft' = sft
        \/ \E pos : sft' = [sft EXCEPT ![i].pos = pos]
    BY <1>1, <1>7 DEF SeekFromEnd, TableType
  <2>3. KeepsHandles(sft')
    BY ZenonT(30), <1>1, <1>2, <2>1, <2>2, TableEdited
  <2>4. QED
    BY <1>1, <2>1, <2>3, SeekEndFacts
<1>8. QED
  BY <1>4, <1>5, <1>6, <1>7

\* Sharing an entry.
LEMMA DuplicateKeepsInv ==
  ASSUME RedirectorInv, NEW i \in Slots, Duplicate(i)
  PROVE  RedirectorInv'
<1>1. TableType(sft) /\ sft[i].open > 0
  BY DEF RedirectorInv, Duplicate
<1>2. KeepsHandles(sft')
  <2>1. sft' = [sft EXCEPT ![i].open = 2]
    BY DEF Duplicate
  <2>2. QED
    BY <1>1, <2>1, TableEdited
<1>3. "wrapped" \notin mishap' => HandlesBelow(sft', hfs'.next)
  <2>1. hfs' = hfs /\ mishap' = mishap
    BY DEF Duplicate, guestVars
  <2>2. HandlesBelow(sft, hfs.next) => HandlesBelow(sft', hfs.next)
    BY <1>2, SameHandles DEF KeepsHandles
  <2>3. QED
    BY <2>1, <2>2 DEF RedirectorInv
<1>4. SavedInv'
  BY SavedStays DEF RedirectorInv, Duplicate, Call, guestVars
<1>5. QED
  BY <1>2, <1>3, <1>4 DEF RedirectorInv, Duplicate, Call, guestVars, KeepsHandles

\* A new search owns the entries left, and no other in progress is undisturbed.
LEMMA SearchKeepsInv ==
  ASSUME RedirectorInv, NEW a \in Areas, NEW pattern \in Patterns,
         NEW withLabel \in BOOLEAN, Search(a, pattern, withLabel)
  PROVE  RedirectorInv'
<1> DEFINE m == Matched(hfs, pattern)
<1>1. CardInv(hfs, Lost) /\ SearchType(search)
  BY DEF RedirectorInv, Lost
<1>2. pattern \subseteq Names /\ IsFiniteSet(m) /\ m \in SUBSET Names
  BY RedirectorAssumption, FS_Subset DEF Matched
<1>3. hfs' = FindFirst(hfs, pattern)
  BY DEF Search
<1>4. /\ CardInv(hfs', Lost) /\ hfs'.next = hfs.next
      /\ ~hfs'.ok => hfs'.left = {}
      /\ hfs'.ok => /\ hfs'.reply.kind = "entry" /\ hfs'.reply.name \in m
                    /\ NamesOf(hfs'.left) = m \ {hfs'.reply.name}
  BY <1>1, <1>2, <1>3, FindFirstFacts
<1> HIDE DEF m
<1>5. /\ mishap' = mishap /\ sft' = sft /\ saved' = saved
      /\ label' \in BOOLEAN
  BY DEF Search, Call, RedirectorInv
<1>6. CardInv(hfs', Lost') /\ SavedInv'
  BY <1>4, <1>5, SavedStays DEF Lost, RedirectorInv
<1>7. ASSUME NEW b \in Areas \ {a}
      PROVE  /\ search'[b] \in [match : {n \in SUBSET Names : IsFiniteSet(n)},
                      found : Seq(Found), done : BOOLEAN, alone : BOOLEAN]
             /\ search'[b].match = search[b].match
             /\ search'[b].found = search[b].found
             /\ search'[b].done <=> search[b].done
             /\ search'[b].alone => search[b].alone /\ search[b].done
  <2>1. search'[b] = [search[b] EXCEPT !.alone = @ /\ search[b].done]
    BY <1>3, <1>7 DEF Search
  <2>2. QED
    BY <1>1, <1>7, <2>1 DEF SearchType, SearchRecord
<1>8. /\ search'[a] \in [match : {n \in SUBSET Names : IsFiniteSet(n)},
                         found : Seq(Found), done : BOOLEAN, alone : BOOLEAN]
      /\ search'[a].alone
      /\ IF search'[a].done THEN Complete(search'[a], {})
         ELSE /\ label' => /\ hfs'.reply.kind = "entry"
                           /\ hfs'.reply.name \notin NamesOf(hfs'.left)
              /\ Complete(search'[a], Rest(hfs'.left, hfs'.reply, label'))
  <2>1. CASE hfs'.ok
    <3> DEFINE n == hfs'.reply.name
               x == [match |-> m, found |-> IF withLabel THEN <<>> ELSE <<n>>,
                     done |-> FALSE, alone |-> TRUE]
    <3>1. FoundIn(hfs'.reply) = n /\ n \in Found
      BY <1>2, <1>4, <2>1 DEF FoundIn, Found
    <3>2. search'[a] = x /\ label' = withLabel
      BY <1>3, <2>1, <3>1 DEF Search, m, Matched
    <3>3. CASE withLabel
      <4>1. Rest(hfs'.left, hfs'.reply, label') = m
        BY <1>4, <2>1, <3>2, <3>3 DEF Rest
      <4>2. Complete(x, m)
        BY <1>2, <3>3, BegunSound
      <4>3. x \in [match : {k \in SUBSET Names : IsFiniteSet(k)},
                   found : Seq(Found), done : BOOLEAN, alone : BOOLEAN]
        BY <1>2, <3>3
      <4>4. QED
        BY <1>4, <2>1, <3>2, <4>1, <4>2, <4>3
    <3>4. CASE ~withLabel
      <4>1. Rest(hfs'.left, hfs'.reply, label') = m \ {n}
        BY <1>4, <2>1, <3>2, <3>4 DEF Rest
      <4>2. Complete(x, m \ {n})
        BY <1>2, <1>4, <2>1, <3>4, BegunSound
      <4>3. x \in [match : {k \in SUBSET Names : IsFiniteSet(k)},
                   found : Seq(Found), done : BOOLEAN, alone : BOOLEAN]
        BY <1>2, <3>1, <3>4
      <4>4. QED
        BY <3>2, <3>4, <4>1, <4>2, <4>3
    <3>5. QED
      BY <3>3, <3>4
  <2>2. CASE ~hfs'.ok
    <3>1. search'[a] = NoSearch
      BY <1>3, <2>2 DEF Search
    <3>2. IsFiniteSet({}) /\ NoSearch.match = {} /\ NoSearch.found = <<>>
          /\ NoSearch.done /\ NoSearch.alone
      BY FS_EmptySet DEF NoSearch
    <3>3. Complete(NoSearch, {})
      BY <3>2, BegunSound
    <3>4. NoSearch \in [match : {k \in SUBSET Names : IsFiniteSet(k)},
                        found : Seq(Found), done : BOOLEAN, alone : BOOLEAN]
      BY <3>2 DEF NoSearch
    <3>5. QED
      BY <3>1, <3>2, <3>3, <3>4
  <2>3. QED
    BY <2>1, <2>2
<1>9. SearchType(search')
  <2>1. search' = [b \in Areas |-> search'[b]]
    BY DEF Search
  <2>2. QED
    BY <1>7, <1>8, <2>1 DEF SearchType, SearchRecord
<1>10. \A b \in Areas \ {a} : search'[b].alone =>
         search'[b].done /\ Complete(search'[b], {})
  <2>1. \A b \in Areas : search[b].alone /\ search[b].done
                           => Complete(search[b], {})
    BY DEF RedirectorInv, SearchesSound
  <2>2. QED
    BY <1>7, <2>1 DEF Complete
<1>11. SearchesSound(search', hfs'.left, hfs'.reply, label')
  BY <1>8, <1>10 DEF SearchesSound, InProgress
<1>12. QED
  BY <1>4, <1>5, <1>6, <1>9, <1>11 DEF RedirectorInv, Lost

\* What the searches are after the next entry was asked for: a has found n,
\* or come to its end, or is as it was.
Others(a, new) ==
  /\ new = [b \in Areas |-> new[b]]
  /\ \A b \in Areas \ {a} :
       /\ new[b] \in SearchRecord
       /\ new[b].match = search[b].match /\ new[b].found = search[b].found
       /\ new[b].done <=> search[b].done
       /\ new[b].alone <=> search[b].alone /\ search[b].done
  /\ new[a] \in SearchRecord
  /\ new[a].match = search[a].match
  /\ new[a].alone <=> search[a].alone

Disturbed(a) ==
  [b \in Areas |-> [search[b] EXCEPT !.alone = @ /\ (b = a \/ search[b].done)]]

\* The searches once a has been asked for its next entry.
LEMMA DisturbedFacts ==
  ASSUME SearchType(search), NEW a \in Areas, ~search[a].done, NEW others,
         others = Disturbed(a), NEW b \in Areas
  PROVE  /\ others = [c \in Areas |-> others[c]]
         /\ others[b] \in SearchRecord
         /\ others[b].match = search[b].match
         /\ others[b].found = search[b].found
         /\ others[b].done <=> search[b].done
         /\ others[b].alone <=> search[b].alone /\ (b = a \/ search[b].done)
<1>1. search[b] \in SearchRecord
  BY DEF SearchType
<1>2. others[b] = [search[b] EXCEPT !.alone = @ /\ (b = a \/ search[b].done)]
  BY DEF Disturbed
<1>3. others = [c \in Areas |-> others[c]]
  BY DEF Disturbed
<1>4. QED
  BY <1>1, <1>2, <1>3 DEF SearchRecord

\* A search replaced by one that still matches the same.
LEMMA OthersReplaced ==
  ASSUME SearchType(search), NEW a \in Areas, ~search[a].done, NEW others,
         others = Disturbed(a), NEW e \in SearchRecord,
         e.match = others[a].match, e.alone <=> others[a].alone,
         NEW new, new = [b \in Areas |-> new[b]], new[a] = e,
         \A b \in Areas \ {a} : new[b] = others[b]
  PROVE  Others(a, new)
<1>1. \A b \in Areas :
        /\ others[b] \in SearchRecord
        /\ others[b].match = search[b].match
        /\ others[b].found = search[b].found
        /\ others[b].done <=> search[b].done
        /\ others[b].alone <=> search[b].alone /\ (b = a \/ search[b].done)
  BY DisturbedFacts
<1>2. QED
  BY <1>1 DEF Others

\* a has found n.
LEMMA SearchFound ==
  ASSUME SearchType(search), NEW a \in Areas, ~search[a].done,
         NEW n \in Found,
         search' = [Disturbed(a) EXCEPT ![a].found = Append(@, n)]
  PROVE  /\ Others(a, search') /\ ~search'[a].done
         /\ search'[a].found = Append(search[a].found, n)
<1> DEFINE others == Disturbed(a)
           f == Append(others[a].found, n)
           e == [others[a] EXCEPT !.found = f]
<1>1. search' = [others EXCEPT ![a] = e]
  OBVIOUS
<1>2. others = Disturbed(a)
  OBVIOUS
<1> HIDE DEF others
<1>3. /\ others[a] \in SearchRecord /\ ~others[a].done
      /\ others[a].found = search[a].found
  BY <1>2, DisturbedFacts
<1>4. f \in Seq(Found) /\ f = Append(search[a].found, n)
  BY <1>3 DEF SearchRecord
<1> HIDE DEF f
<1>5. e = [others[a] EXCEPT !.found = f]
  OBVIOUS
<1> HIDE DEF e
<1>6. /\ e \in SearchRecord /\ e.match = others[a].match
      /\ e.alone <=> others[a].alone
      /\ ~e.done /\ e.found = f
  BY <1>3, <1>4, <1>5 DEF SearchRecord
<1>7. Others(a, search') /\ search'[a] = e
  <2>1. others = [b \in Areas |-> others[b]]
    BY <1>2, DisturbedFacts
  <2>2. search' = [b \in Areas |-> IF b = a THEN e ELSE others[b]]
    BY <1>1, <2>1
  <2>3. /\ search' = [b \in Areas |-> search'[b]] /\ search'[a] = e
        /\ \A b \in Areas \ {a} : search'[b] = others[b]
    BY <2>2
  <2>4. /\ e \in SearchRecord /\ e.match = others[a].match
        /\ e.alone <=> others[a].alone
    BY <1>6
  <2>5. Others(a, search')
    BY ONLY SearchType(search), ~search[a].done, a \in Areas, <1>2, <2>3,
            <2>4, OthersReplaced
  <2>6. QED
    BY <2>3, <2>5
<1>8. QED
  BY <1>4, <1>6, <1>7

\* a has come to its end, or not.
LEMMA SearchEnded ==
  ASSUME SearchType(search), NEW a \in Areas, ~search[a].done,
         NEW done \in BOOLEAN,
         search' = [Disturbed(a) EXCEPT ![a].done = done]
  PROVE  /\ Others(a, search') /\ search'[a].found = search[a].found
         /\ search'[a].done <=> done
<1> DEFINE others == Disturbed(a)
           e == [others[a] EXCEPT !.done = done]
<1>1. search' = [others EXCEPT ![a] = e]
  OBVIOUS
<1>2. others = Disturbed(a)
  OBVIOUS
<1> HIDE DEF others
<1>3. others[a] \in SearchRecord /\ others[a].found = search[a].found
  BY <1>2, DisturbedFacts
<1>4. e = [others[a] EXCEPT !.done = done]
  OBVIOUS
<1> HIDE DEF e
<1>5. /\ e \in SearchRecord /\ e.match = others[a].match
      /\ e.alone <=> others[a].alone
      /\ e.done <=> done
      /\ e.found = others[a].found
  BY <1>3, <1>4 DEF SearchRecord
<1>6. Others(a, search') /\ search'[a] = e
  <2>1. others = [b \in Areas |-> others[b]]
    BY <1>2, DisturbedFacts
  <2>2. search' = [b \in Areas |-> IF b = a THEN e ELSE others[b]]
    BY <1>1, <2>1
  <2>3. /\ search' = [b \in Areas |-> search'[b]] /\ search'[a] = e
        /\ \A b \in Areas \ {a} : search'[b] = others[b]
    BY <2>2
  <2>4. QED
    BY <1>2, <1>5, <2>3, OthersReplaced
<1>7. QED
  BY <1>3, <1>5, <1>6

\* The next entry is the first one, as long as it waits, or one of those left.
LEMMA SearchNextKeepsInv ==
  ASSUME RedirectorInv, NEW a \in Areas, SearchNext(a)
  PROVE  RedirectorInv'
<1> DEFINE x == search[a]
           y == search'[a]
           rest == Rest(hfs.left, hfs.reply, label)
<1>1. /\ CardInv(hfs, Lost) /\ SearchType(search) /\ label \in BOOLEAN
      /\ hfs.up /\ ~x.done
  BY DEF RedirectorInv, Lost, SearchNext, Call
<1>2. x.found \in Seq(Found) /\ IsFiniteSet(x.match)
  BY <1>1 DEF SearchType, SearchRecord
<1>3. /\ mishap' = mishap /\ sft' = sft /\ saved' = saved /\ label' = FALSE
  BY DEF SearchNext, Call
<1>4. SavedInv'
  BY <1>3, SavedStays DEF RedirectorInv
<1>5. x.alone => /\ label => /\ hfs.reply.kind = "entry"
                             /\ hfs.reply.name \notin NamesOf(hfs.left)
                 /\ Complete(x, rest)
  BY <1>1 DEF RedirectorInv, SearchesSound
<1> HIDE DEF x, y, rest
\* What has to be shown of a's search, and what follows from it.
<1>6. ASSUME Others(a, search'), CardInv(hfs', Lost), hfs'.next = hfs.next,
             x.alone => Complete(y, IF y.done THEN {} ELSE NamesOf(hfs'.left))
      PROVE  RedirectorInv'
  <2>1. SearchType(search')
    BY <1>6 DEF Others, SearchType, SearchRecord
  <2>2. \A b \in Areas \ {a} : search'[b].alone =>
          search'[b].done /\ Complete(search'[b], {})
    <3>1. \A b \in Areas : search[b].alone /\ search[b].done
                             => Complete(search[b], {})
      BY DEF RedirectorInv, SearchesSound
    <3>2. QED
      BY <1>6, <3>1 DEF Others, Complete
  <2>3. Rest(hfs'.left, hfs'.reply, label') = NamesOf(hfs'.left)
    BY <1>3 DEF Rest
  <2>4. y.alone => IF y.done THEN Complete(y, {})
                   ELSE Complete(y, Rest(hfs'.left, hfs'.reply, label'))
    BY <1>6, <2>3 DEF Others, x, y
  <2>5. SearchesSound(search', hfs'.left, hfs'.reply, label')
    BY <1>3, <2>2, <2>4 DEF SearchesSound, InProgress, y
  <2>6. QED
    BY <1>3, <1>4, <1>6, <2>1, <2>5 DEF RedirectorInv, Lost
<1>7. CASE label
  <2> DEFINE n == hfs.reply.name
  <2>1. FoundIn(hfs.reply) \in Found
    BY <1>1 DEF CardInv, ReplyKnown, FoundIn, Found
  <2>2. /\ hfs' = hfs
        /\ search' = [Disturbed(a) EXCEPT
                        ![a].found = Append(@, FoundIn(hfs.reply))]
    BY <1>7 DEF SearchNext, Disturbed
  <2>3. /\ Others(a, search') /\ ~y.done
        /\ y.found = Append(x.found, FoundIn(hfs.reply))
    BY <1>1, <2>1, <2>2, SearchFound DEF x, y
  <2>4. ASSUME x.alone
        PROVE  Complete(y, NamesOf(hfs'.left))
    <3>1. /\ FoundIn(hfs.reply) = n /\ n \in rest
          /\ rest \ {n} = NamesOf(hfs.left)
      BY <1>5, <1>7, <2>4 DEF FoundIn, rest, Rest
    <3>2. y.match = x.match
      BY <2>3 DEF Others, x, y
    <3> HIDE DEF n
    <3>3. Complete(y, rest \ {n})
      BY <1>2, <1>5, <2>3, <2>4, <3>1, <3>2, NextFound
    <3>4. QED
      BY <2>2, <3>1, <3>3
  <2>5. CardInv(hfs', Lost) /\ hfs'.next = hfs.next
    BY <1>1, <2>2
  <2>6. QED
    BY <1>6, <2>3, <2>4, <2>5
<1>8. CASE ~label
  <2>1. hfs' = FindNext(hfs)
    BY <1>8 DEF SearchNext
  <2>2. /\ CardInv(hfs', Lost) /\ hfs'.next = hfs.next
        /\ \/ Taken(hfs, hfs')
           \/ NoneLeft(hfs, hfs')
           \/ ~hfs'.up /\ hfs'.left = hfs.left
    BY <1>1, <2>1, FindNextFacts
  <2>3. rest = NamesOf(hfs.left)
    BY <1>8 DEF rest, Rest
  <2>4. search' = IF hfs'.up /\ hfs'.ok
                  THEN [Disturbed(a) EXCEPT
                          ![a].found = Append(@, FoundIn(hfs'.reply))]
                  ELSE [Disturbed(a) EXCEPT ![a].done = hfs'.up]
    BY <1>8, <2>1 DEF SearchNext, Disturbed
  <2>5. CASE Taken(hfs, hfs')
    <3>1. PICK e \in hfs.left : /\ e.kind = "entry" /\ hfs'.ok
                                /\ hfs'.up = hfs.up /\ hfs'.reply = e
                                /\ hfs'.left = hfs.left \ {e}
      BY <2>5 DEF Taken
    <3>2. /\ e.name \in Names
          /\ \A g \in hfs.left : g.name = e.name => g = e
      BY <1>1 DEF CardInv, EntriesKnown
    <3>3. FoundIn(hfs'.reply) = e.name /\ e.name \in Found
      BY <3>1, <3>2 DEF FoundIn, Found
    <3>4. search' = [Disturbed(a) EXCEPT ![a].found = Append(@, e.name)]
      BY <1>1, <2>4, <3>1, <3>3
    <3>5. Others(a, search') /\ ~y.done /\ y.found = Append(x.found, e.name)
      BY <1>1, <3>3, <3>4, SearchFound DEF x, y
    <3>6. e.name \in rest /\ NamesOf(hfs'.left) = rest \ {e.name}
      BY <2>3, <3>1, <3>2 DEF NamesOf
    <3>7. y.match = x.match
      BY <3>5 DEF Others, x, y
    <3>8. x.alone => Complete(y, NamesOf(hfs'.left))
      BY <1>2, <1>5, <3>5, <3>6, <3>7, NextFound
    <3>9. QED
      BY <1>6, <2>2, <3>5, <3>8
  <2>6. CASE ~Taken(hfs, hfs')
    <3>1. search' = [Disturbed(a) EXCEPT ![a].done = hfs'.up]
      BY <2>2, <2>4, <2>6 DEF NoneLeft
    <3>2. hfs'.up \in BOOLEAN
      BY <2>2 DEF CardInv, CardShape
    <3>3. Others(a, search') /\ y.found = x.found /\ (y.done <=> hfs'.up)
      BY <1>1, <3>1, <3>2, SearchEnded DEF x, y
    <3>4. y.match = x.match
      BY <3>3 DEF Others, x, y
    <3>5. ASSUME x.alone
          PROVE  Complete(y, IF y.done THEN {} ELSE NamesOf(hfs'.left))
      <4>1. Complete(y, rest)
        BY <1>5, <3>3, <3>4, <3>5 DEF Complete
      <4>2. CASE NoneLeft(hfs, hfs')
        <5>1. rest = {} /\ NamesOf(hfs'.left) = {}
          BY <2>3, <4>2 DEF NoneLeft, NamesOf
        <5>2. QED
          BY <4>1, <5>1
      <4>3. CASE ~hfs'.up /\ hfs'.left = hfs.left
        BY <2>3, <3>3, <4>1, <4>3
      <4>4. QED
        BY <2>2, <2>6, <4>2, <4>3
    <3>6. QED
      BY <1>6, <2>2, <3>3, <3>5
  <2>7. QED
    BY <2>5, <2>6
<1>9. QED
  BY <1>1, <1>7, <1>8

\* A save copies what is sound.
LEMMA SaveKeepsInv ==
  ASSUME RedirectorInv, Save
  PROVE  RedirectorInv'
<1>1. /\ hfs' = hfs /\ sft' = sft /\ label' = label /\ search' = search
      /\ mishap' = mishap
      /\ saved' = [card |-> Saved(hfs), sft |-> sft, label |-> label,
                   search |-> search]
  BY DEF Save, guestVars
<1> DEFINE card == Saved(hfs)
<1>2. /\ card.next = hfs.next /\ card.files = hfs.files
      /\ card.left = hfs.left /\ card.reply = hfs.reply
  BY DEF Saved
<1> HIDE DEF card
<1>3. SavedCard(card)
  BY <1>2 DEF RedirectorInv, CardInv, CardShape, StreamsOpen, EntriesKnown,
              SavedCard
<1>4. /\ saved'.card = card /\ saved'.sft = sft /\ saved'.label = label
      /\ saved'.search = search
      /\ saved' = [card |-> saved'.card, sft |-> saved'.sft,
                   label |-> saved'.label, search |-> saved'.search]
  BY <1>1 DEF card
<1>5. SavedInv'
  BY <1>1, <1>2, <1>3, <1>4 DEF RedirectorInv, SavedInv
<1>6. QED
  BY <1>1, <1>5 DEF RedirectorInv

\* A load puts it back.
LEMMA LoadKeepsInv ==
  ASSUME RedirectorInv, LoadSaved
  PROVE  RedirectorInv'
<1>1. /\ hfs' = Load(hfs, saved.card) /\ sft' = saved.sft
      /\ label' = saved.label /\ search' = saved.search /\ saved' = saved
      /\ mishap' = (IF Loses(hfs') THEN mishap \cup {"lost"} ELSE mishap)
      /\ saved # <<>>
  BY DEF LoadSaved
<1>2. /\ SavedCard(saved.card) /\ TableType(saved.sft)
      /\ SearchType(saved.search) /\ saved.label \in BOOLEAN
      /\ "wrapped" \notin mishap => HandlesBelow(saved.sft, saved.card.next)
      /\ SearchesSound(saved.search, saved.card.left, saved.card.reply,
                       saved.label)
  BY <1>1 DEF RedirectorInv, SavedInv
<1>3. /\ CardInv(hfs', Lost \/ Loses(hfs'))
      /\ hfs'.next = saved.card.next /\ hfs'.reply = saved.card.reply
      /\ NamesOf(hfs'.left) = NamesOf(saved.card.left)
  <2>1. CardInv(hfs, Lost) /\ Lost \in BOOLEAN
    BY DEF RedirectorInv, Lost
  <2>2. QED
    BY <1>1, <1>2, <2>1, LoadFacts
<1>4. Lost' <=> Lost \/ Loses(hfs')
  BY <1>1 DEF Lost
<1>5. CardInv(hfs', Lost')
  BY <1>3, <1>4 DEF CardInv, StreamsOpen, EntriesKnown
<1>6. SavedInv'
  BY <1>1, SavedStays DEF RedirectorInv
<1>7. SearchesSound(search', hfs'.left, hfs'.reply, label')
  BY <1>1, <1>2, <1>3 DEF SearchesSound, Rest
<1>8. "wrapped" \notin mishap' => HandlesBelow(sft', hfs'.next)
  BY <1>1, <1>2, <1>3
<1>9. QED
  BY <1>1, <1>2, <1>5, <1>6, <1>7, <1>8 DEF RedirectorInv, Lost

-----------------------------------------------------------------------------
(* The theorems.                                                           *)

\* Nothing is open, searched or saved at the start.
LEMMA InitHasInv ==
  ASSUME Init
  PROVE  RedirectorInv
<1>1. /\ hfs = [host |-> Host, next |-> 1, files |-> <<>>, left |-> {},
                ok |-> TRUE, reply |-> NoReply, up |-> TRUE]
      /\ sft = [i \in Slots |-> FreeEntry] /\ label = FALSE
      /\ search = [a \in Areas |-> NoSearch] /\ saved = <<>>
  BY DEF Init, HfsInit
<1>2. CardInv(hfs, Lost)
  <2>1. HostShape(Host)
    BY RedirectorAssumption DEF HostShape
  <2>2. /\ hfs.host = Host /\ hfs.next = 1 /\ hfs.files = <<>>
        /\ hfs.left = {} /\ hfs.up /\ hfs.reply = NoReply
    BY <1>1
  <2>3. CardRecord(hfs)
    BY <1>1 DEF CardRecord
  <2>4. FilesShape(<<>>) /\ DOMAIN <<>> = {}
    BY DEF FilesShape
  <2>5. QED
    BY <2>1, <2>2, <2>3, <2>4, HostFilesAssumption
       DEF CardInv, CardShape, CardRecord, StreamsOpen, EntriesKnown,
           ReplyKnown, NoReply
<1>3. TableType(sft) /\ HandlesBelow(sft, hfs.next)
  BY <1>1 DEF TableType, HandlesBelow, FreeEntry
<1>4. SearchType(search) /\ SearchesSound(search, hfs.left, hfs.reply, label)
  <2>1. IsFiniteSet({}) /\ NoSearch.match = {} /\ NoSearch.found = <<>>
        /\ NoSearch.done /\ NoSearch.alone
    BY FS_EmptySet DEF NoSearch
  <2>2. Complete(NoSearch, {})
    BY <2>1, BegunSound
  <2>3. NoSearch \in SearchRecord
    BY <2>1 DEF NoSearch, SearchRecord
  <2>4. QED
    BY <1>1, <2>1, <2>2, <2>3
       DEF SearchType, SearchRecord, SearchesSound, InProgress
<1>5. QED
  BY <1>1, <1>2, <1>3, <1>4 DEF RedirectorInv, Lost, SavedInv

\* One step per action.
LEMMA StepKeepsInv ==
  ASSUME RedirectorInv, [Next]_vars
  PROVE  RedirectorInv'
<1>1. CASE UNCHANGED vars
  BY <1>1 DEF vars, guestVars, RedirectorInv, SavedInv
<1>2. ASSUME NEW n \in Names,
             \/ MakeDir(n) \/ ChangeDir(n) \/ GetAttributes(n) \/ Delete(n)
             \/ \E m \in Names : RenameTo(n, m)
      PROVE  RedirectorInv'
  BY <1>2, NameCallKeepsInv
<1>3. CASE GetDiskInfo
  BY <1>3, NameCallKeepsInv
<1>4. ASSUME NEW n \in Names, NEW i \in Slots, Open(i, n) \/ CreateNew(i, n)
      PROVE  RedirectorInv'
  BY <1>4, OpenCallKeepsInv
<1>5. CASE Ignored
  BY <1>1, <1>5 DEF Ignored
<1>6. ASSUME NEW i \in Slots,
             \/ CloseFile(i)
             \/ \E count \in Counts : ReadFile(i, count)
             \/ \E data \in Data, fits \in BOOLEAN : WriteFile(i, data, fits)
             \/ \E off \in {0, PosMod - 1} : SeekFromEnd(i, off)
      PROVE  RedirectorInv'
  BY <1>6, FileCallKeepsInv
<1>7. ASSUME NEW i \in Slots, Duplicate(i)
      PROVE  RedirectorInv'
  BY <1>7, DuplicateKeepsInv
<1>8. ASSUME NEW a \in Areas, SearchNext(a)
      PROVE  RedirectorInv'
  BY <1>8, SearchNextKeepsInv
<1>9. ASSUME NEW a \in Areas, NEW p \in Patterns, NEW withLabel \in BOOLEAN,
             Search(a, p, withLabel)
      PROVE  RedirectorInv'
  BY <1>9, SearchKeepsInv
<1>10. CASE Save
  BY <1>10, SaveKeepsInv
<1>11. CASE LoadSaved
  BY <1>11, LoadKeepsInv
<1>12. QED
  BY <1>1, <1>2, <1>3, <1>4, <1>5, <1>6, <1>7, <1>8, <1>9, <1>10, <1>11
     DEF Next

\* The invariant holds whatever is opened, closed, searched, saved and loaded.
THEOREM RedirectorInvariance == Spec => []RedirectorInv
<1>1. Init => RedirectorInv
  BY InitHasInv
<1>2. RedirectorInv /\ [Next]_vars => RedirectorInv'
  BY StepKeepsInv
<1>3. QED
  BY <1>1, <1>2, PTL DEF Spec

\* Before hfs_next_handle_ wraps, two open entries of the file table never
\* share a stream of the card.
THEOREM HandlesNeverShared == Spec => []HandlesDistinct
<1>1. RedirectorInv => HandlesDistinct
  BY DEF RedirectorInv, HandlesBelow, HandlesDistinct
<1>2. QED
  BY <1>1, RedirectorInvariance, PTL

\* A search that nothing disturbed has found each name its pattern matched
\* exactly once when it ends.
THEOREM SearchesFindAll == Spec => []SearchIsComplete
<1>1. RedirectorInv => SearchIsComplete
  <2>1. IsFiniteSet({}) /\ Cardinality({}) = 0
    BY FS_EmptySet
  <2>2. ASSUME RedirectorInv, NEW a \in Areas,
               search[a].done, search[a].alone
        PROVE  /\ Len(search[a].found) = Cardinality(search[a].match)
               /\ {search[a].found[k] : k \in DOMAIN search[a].found}
                    = search[a].match
    <3>1. Complete(search[a], {})
      BY <2>2 DEF RedirectorInv, SearchesSound
    <3>2. Len(search[a].found) \in Nat
      BY <2>2 DEF RedirectorInv, SearchType, SearchRecord
    <3>3. QED
      BY <2>1, <3>1, <3>2 DEF Complete
  <2>3. QED
    BY <2>2 DEF SearchIsComplete
<1>2. QED
  BY <1>1, RedirectorInvariance, PTL

\* Only what a load could not find again ends the emulator: without a load
\* that lost something no exception of the card goes uncaught.
THEOREM EmulatorStaysUp == Spec => []StaysUp
<1>1. RedirectorInv => StaysUp
  BY DEF RedirectorInv, CardInv, StaysUp
<1>2. QED
  BY <1>1, RedirectorInvariance, PTL

=============================================================================
