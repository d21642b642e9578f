---------------------------- MODULE ManifestCodec ----------------------------
(***************************************************************************)
(* The manifest file of lib/io/store.hpp, field by field: what save writes *)
(* with a BufferWriter and load reads back with a BufferReader.  A field   *)
(* of fixed size is one number; a string is its length and its characters. *)
(* An optional is None or its value.  A reader that is not ok has thrown.  *)
(***************************************************************************)
EXTENDS Naturals, Sequences

CONSTANT None

Magic   == 79
Version1 == 1

-----------------------------------------------------------------------------
(* Writing.                                                                *)

WriteString(s) == <<Len(s)>> \o s

WriteOptionalString(o) == IF o = None THEN <<0>> ELSE <<1>> \o WriteString(o)

WriteWallpaper(w) ==
  WriteString(w.absPath) \o <<w.hash, w.createdAt, w.visibility>>
    \o (IF w.lastShown = None THEN <<0>> ELSE <<1, w.lastShown>>)

\* The loop of save over the vector.
WriteWallpapers(ws) ==
  LET written[i \in 0..Len(ws)] ==
        IF i = 0 THEN << >> ELSE written[i - 1] \o WriteWallpaper(ws[i])
  IN written[Len(ws)]

Written(m) ==
  <<Magic, Version1, m.stateMode>>
    \o WriteOptionalString(m.publicCurrent)
    \o WriteOptionalString(m.privateCurrent)
    \o <<Len(m.wallpapers)>>
    \o WriteWallpapers(m.wallpapers)

-----------------------------------------------------------------------------
(* Reading.  got is the value of the last read.                            *)

Reader(bytes, offset, ok, got) ==
  [buffer |-> bytes, offset |-> offset, ok |-> ok, got |-> got]

\* Mutant of ReadRaw: a read past the end returns zeros.
ReadRawUnchecked(r, size) ==
  Reader(r.buffer, r.offset + size, r.ok,
         [i \in 1..size |-> IF r.offset + i <= Len(r.buffer)
                            THEN r.buffer[r.offset + i] ELSE 0])

\* readRaw throws when fewer than size fields are left.
ReadRaw(r, size) ==
  IF r.ok /\ r.offset + size <= Len(r.buffer)
  THEN Reader(r.buffer, r.offset + size, TRUE,
              SubSeq(r.buffer, r.offset + 1, r.offset + size))
  ELSE Reader(r.buffer, r.offset, FALSE, <<0>>)

\* r with the value that was made of what it got.
Got(r, value) == Reader(r.buffer, r.offset, r.ok, value)

ReadPod(r) == ReadRaw(r, 1)

ReadString(r) == LET size == ReadPod(r) IN ReadRaw(size, size.got[1])

\* An optional is a tag, and the value if the tag is not 0.
ReadOptionalString(r) ==
  LET present == ReadPod(r)
  IN IF present.got = <<0>> THEN Got(present, None) ELSE ReadString(present)

ReadLastShown(r) ==
  LET tag == ReadPod(r)
      at  == ReadPod(tag)
  IN IF tag.got = <<0>> THEN Got(tag, None) ELSE Got(at, at.got[1])

ReadWallpaper(r) ==
  LET path    == ReadString(r)
      hash    == ReadPod(path)
      created == ReadPod(hash)
      vis     == ReadPod(created)
      shown   == ReadLastShown(vis)
  IN Got(shown, [absPath    |-> path.got,
                 hash       |-> hash.got[1],
                 createdAt  |-> created.got[1],
                 visibility |-> vis.got[1],
                 lastShown  |-> shown.got])

\* loadWallpaper: a wallpaper takes the slot of the one with its digest, if any.
Load(ws, w) ==
  IF \E i \in DOMAIN ws : ws[i].hash = w.hash
  THEN [i \in DOMAIN ws |-> IF ws[i].hash = w.hash THEN w ELSE ws[i]]
  ELSE Append(ws, w)

ReadWallpapers(r, count) ==
  LET read[i \in 0..count] ==
        IF i = 0 THEN Got(r, << >>)
        ELSE LET next == ReadWallpaper(read[i - 1])
             IN Got(next, Load(read[i - 1].got, next.got))
  IN read[count]

\* ManifestStore::load of a file that exists: the manifest, or None if it throws.
Parsed(bytes) ==
  LET magic   == ReadPod(Reader(bytes, 0, TRUE, <<0>>))
      version == ReadPod(magic)
      mode    == ReadPod(version)
      public  == ReadOptionalString(mode)
      private == ReadOptionalString(public)
      count   == ReadPod(private)
      all     == ReadWallpapers(count, count.got[1])
  IN IF all.ok /\ magic.got = <<Magic>> /\ version.got = <<Version1>>
     THEN [stateMode      |-> mode.got[1],
           publicCurrent  |-> public.got,
           privateCurrent |-> private.got,
           wallpapers     |-> all.got]
     ELSE None
=============================================================================
