----------------------------- MODULE DurableStore -----------------------------
(***************************************************************************)
(* The durable-state file (src/core/persistence.cpp, serialization.cpp).   *)
(*                                                                         *)
(* Processes save checkpoints to one path and load them from it.  A save   *)
(* writes path + ".tmp" and renames it over path; all savers of a path     *)
(* share that temporary name.  The operating system interleaves their      *)
(* system calls, and a process may die between any two of them.  Directory *)
(* entries name inodes: a descriptor opened before a rename goes on        *)
(* pointing at the same inode after it.                                    *)
(*                                                                         *)
(* A file is a sequence of cells, one for each field or record the frame   *)
(* is made of.  Renaming and removing may fail at any time, which covers   *)
(* the sharing rules of Windows as well.                                   *)
(***************************************************************************)
EXTENDS Integers, Sequences, FiniteSets

CONSTANTS
  Saver, Loader,               \* the processes (or threads) that use the file
  Inode, None,
  Checkpoints,                 \* the states the savers are asked to save
  max_devices, max_links,      \* Limits{}, the defaults, whatever the caller's
  kMaxString,
  max_persisted_state_bytes,   \* the caller's limit, in cells
  Resave                       \* bound: may a checkpoint be saved again?

\* A device or link record is known by its identity and its longest string.
IsRecord(r) == r = [id |-> r.id, longest |-> r.longest] /\ r.longest \in 0..65535

Records(q) == q \in Seq({q[i] : i \in DOMAIN q}) /\ \A i \in DOMAIN q : IsRecord(q[i])

\* There are inodes for both names and every open file.
ASSUME CheckpointsAssumption ==
  /\ \A s \in Checkpoints :
       /\ s = [topology_generation |-> s.topology_generation,
               devices |-> s.devices, links |-> s.links]
       /\ Records(s.devices) /\ Records(s.links)
  /\ max_devices \in Nat /\ max_links \in Nat /\ kMaxString \in 0..65535
  /\ IsFiniteSet(Inode) /\ IsFiniteSet(Saver) /\ IsFiniteSet(Loader) /\ None \notin Inode
  /\ Cardinality(Inode) >= Cardinality(Saver) + Cardinality(Loader) + 2
  /\ max_persisted_state_bytes \in Nat /\ Resave \in BOOLEAN

VARIABLES
  entry,      \* the directory: the inode of "path" and of "tmp"
  content,    \* the cells of every inode in use
  save,       \* the progress of each saver
  load,       \* the progress of each loader
  loaded,     \* what the last load of each loader returned
  given,      \* the checkpoints whose saving has begun
  replaced,   \* the checkpoint of the last successful save
  overlapped  \* a save has begun while another was under way

vars == <<entry, content, save, load, loaded, given, replaced, overlapped>>

-----------------------------------------------------------------------------
(* The frame *)

cell(part, value) == [part |-> part, value |-> value]

\* What lies between the end of a file and a write beyond it: zero bytes.
hole == cell("hole", 0)

cells(part, seq) == [i \in DOMAIN seq |-> cell(part, seq[i])]

write_durable(s) ==
  <<cell("generation", s.topology_generation), cell("count", Len(s.devices))>>
    \o cells("device", s.devices)
    \o <<cell("count", Len(s.links))>> \o cells("link", s.links)

\* The checksum of different cells is taken to be different.
crc32(b) == cell("crc", b)

serialize(s) ==
  LET payload == write_durable(s)
      framed  == <<cell("header", Len(payload))>> \o payload
  IN  Append(framed, crc32(framed))

error(code) == [code |-> code, state |-> None]
ok(s) == [code |-> "OK", state |-> s]

\* Reader::str refuses a string longer than kMaxString; Writer::str does not.
readable(seq) == \A i \in DOMAIN seq : seq[i].longest <= kMaxString

values(b, from, to) == [i \in 1..(to - from + 1) |-> b[from + i - 1].value]

AllOf(part, b, from, to) == \A i \in from..to : b[i].part = part

\* Mutant of intact: the checksum is not compared.
intact_unchecked(b) ==
  /\ Len(b) >= 2
  /\ b[1].part = "header"
  /\ Len(b) = b[1].value + 2

\* Magic, payload length, no trailing garbage, checksum.
intact(b) ==
  /\ Len(b) >= 2
  /\ b[1].part = "header"
  /\ Len(b) = b[1].value + 2
  /\ b[Len(b)] = crc32(SubSeq(b, 1, Len(b) - 1))

\* The payload holds as many records as it announces: the reader ends at the
\* checksum.  A cell of another kind than expected is a misread field.
parses(b) ==
  /\ Len(b) >= 5 /\ b[2].part = "generation" /\ b[3].part = "count"
  /\ LET nd == b[3].value
     IN  /\ Len(b) >= 5 + nd
         /\ AllOf("device", b, 4, 3 + nd) /\ b[4 + nd].part = "count"
         /\ LET nl == b[4 + nd].value
            IN  Len(b) = 5 + nd + nl /\ AllOf("link", b, 5 + nd, 4 + nd + nl)

parse(b) ==
  LET nd == b[3].value
  IN  [topology_generation |-> b[2].value,
       devices |-> values(b, 4, 3 + nd),
       links |-> values(b, 5 + nd, Len(b) - 1)]

within_limits(s) ==
  /\ Len(s.devices) <= max_devices /\ readable(s.devices)
  /\ Len(s.links) <= max_links /\ readable(s.links)

deserialize(b) ==
  IF intact(b) /\ parses(b) /\ within_limits(parse(b))
    THEN ok(parse(b)) ELSE error("INTEGRITY_FAILURE")

-----------------------------------------------------------------------------
(* save_durable_state *)

idle == [pc |-> "idle", state |-> None, inode |-> None, written |-> 0]

\* The inodes that have a name or are open; the others are reclaimed.
in_use ==
  ({entry[n] : n \in DOMAIN entry} \cup {save[p].inode : p \in Saver}
     \cup {load[q].inode : q \in Loader}) \ {None}

\* Which of the unused inodes a new file gets makes no difference.
fresh_inode == CHOOSE i \in Inode : i \notin in_use

reclaim == content' = [i \in in_use' |-> content[i]]

\* Mutant of open_tmp: the file is not truncated.
open_tmp_keep(i) ==
  /\ IF entry["tmp"] = None THEN i = fresh_inode ELSE i = entry["tmp"]
  /\ entry' = [entry EXCEPT !["tmp"] = i]
  /\ content' = [j \in in_use \cup {i} |->
                   IF j = i /\ i \notin in_use THEN <<>> ELSE content[j]]

\* Opening the temporary file creates or truncates it.
open_tmp(i) ==
  /\ IF entry["tmp"] = None THEN i = fresh_inode ELSE i = entry["tmp"]
  /\ entry' = [entry EXCEPT !["tmp"] = i]
  /\ content' = [j \in in_use \cup {i} |-> IF j = i THEN <<>> ELSE content[j]]

\* Mutant of save_begin: the size bound is not tested.
save_begin_unbounded(p, s) ==
  /\ save[p] = idle /\ (Resave \/ s \notin given)
  /\ \E i \in Inode :
       /\ open_tmp(i)
       /\ save' = [save EXCEPT ![p] = [pc |-> "writing", state |-> s,
                                       inode |-> i, written |-> 0]]
  /\ given' = given \cup {s}
  /\ overlapped' = (overlapped \/ \E r \in Saver \ {p} : save[r] # idle)
  /\ UNCHANGED <<load, loaded, replaced>>

save_begin(p, s) ==
  /\ save[p] = idle /\ (Resave \/ s \notin given)
  /\ Len(serialize(s)) <= max_persisted_state_bytes
  /\ \E i \in Inode :
       /\ open_tmp(i)
       /\ save' = [save EXCEPT ![p] = [pc |-> "writing", state |-> s,
                                       inode |-> i, written |-> 0]]
  /\ given' = given \cup {s}
  /\ overlapped' = (overlapped \/ \E r \in Saver \ {p} : save[r] # idle)
  /\ UNCHANGED <<load, loaded, replaced>>

\* A write at an offset, which may lie beyond the end of the file.
write_at(b, n, c) ==
  [i \in 1..(IF n > Len(b) THEN n ELSE Len(b)) |->
     IF i = n THEN c ELSE IF i <= Len(b) THEN b[i] ELSE hole]

\* The stream is flushed in pieces and closed after the last one.
save_write(p) ==
  /\ save[p].pc = "writing"
  /\ LET frame == serialize(save[p].state)
         n     == save[p].written + 1
         at    == save[p].inode
     IN  /\ save' = [save EXCEPT ![p] =
                       IF n < Len(frame) THEN [@ EXCEPT !.written = n]
                       ELSE [@ EXCEPT !.pc = "closed", !.inode = None,
                                      !.written = 0]]
         /\ UNCHANGED <<entry, load>>
         /\ content' = [i \in in_use' |->
                          IF i = at THEN write_at(content[i], n, frame[n])
                                    ELSE content[i]]
  /\ UNCHANGED <<loaded, given, replaced, overlapped>>

\* The save returns an error and leaves the temporary file behind.
save_write_fails(p) ==
  /\ save[p].pc = "writing"
  /\ save' = [save EXCEPT ![p] = idle]
  /\ UNCHANGED <<entry, load, loaded, given, replaced, overlapped>>
  /\ reclaim

atomic_replace(p) ==
  /\ save[p].pc = "closed"
  /\ entry["tmp"] # None
  /\ entry' = [entry EXCEPT !["path"] = entry["tmp"], !["tmp"] = None]
  /\ replaced' = save[p].state
  /\ save' = [save EXCEPT ![p] = idle]
  /\ UNCHANGED <<load, loaded, given, overlapped>>
  /\ reclaim

atomic_replace_fails(p) ==
  /\ save[p].pc = "closed"
  /\ save' = [save EXCEPT ![p].pc = "failed"]
  /\ UNCHANGED <<entry, content, load, loaded, given, replaced, overlapped>>

\* The result of removing the temporary file is ignored.
save_remove_tmp(p) ==
  /\ save[p].pc = "failed"
  /\ save' = [save EXCEPT ![p] = idle]
  /\ \/ entry' = [entry EXCEPT !["tmp"] = None]
     \/ entry' = entry
  /\ UNCHANGED <<load, loaded, given, replaced, overlapped>>
  /\ reclaim

\* The process dies in the middle of a save.
crash(p) ==
  /\ save[p] # idle
  /\ save' = [save EXCEPT ![p] = idle]
  /\ UNCHANGED <<entry, load, loaded, given, replaced, overlapped>>
  /\ reclaim

-----------------------------------------------------------------------------
(* load_durable_state *)

not_loading == [inode |-> None, size |-> 0, bytes |-> <<>>]

\* The size is taken when the file is opened.
load_open(q) ==
  /\ load[q] = not_loading
  /\ LET i == entry["path"]
     IN  IF i = None
           THEN /\ loaded' = [loaded EXCEPT ![q] = error("NOT_FOUND")]
                /\ UNCHANGED load
         ELSE IF Len(content[i]) > max_persisted_state_bytes
           THEN /\ loaded' = [loaded EXCEPT ![q] = error("RESOURCE_LIMIT")]
                /\ UNCHANGED load
         ELSE /\ load' = [load EXCEPT ![q] = [inode |-> i, bytes |-> <<>>,
                                              size |-> Len(content[i])]]
              /\ UNCHANGED loaded
  /\ UNCHANGED <<entry, content, save, given, replaced, overlapped>>

more_to_read(q) ==
  /\ Len(load[q].bytes) < load[q].size
  /\ Len(load[q].bytes) < Len(content[load[q].inode])

load_read(q) ==
  /\ load[q].inode # None
  /\ more_to_read(q)
  /\ load' = [load EXCEPT ![q].bytes =
                Append(@, content[load[q].inode][Len(@) + 1])]
  /\ UNCHANGED <<entry, content, save, loaded, given, replaced, overlapped>>

\* A file that has become shorter is no error: the rest of the buffer is zero.
load_finish(q) ==
  /\ load[q].inode # None
  /\ ~ more_to_read(q)
  /\ loaded' = [loaded EXCEPT ![q] =
       deserialize([i \in 1..load[q].size |->
                      IF i <= Len(load[q].bytes) THEN load[q].bytes[i] ELSE hole])]
  /\ load' = [load EXCEPT ![q] = not_loading]
  /\ UNCHANGED <<entry, save, given, replaced, overlapped>>
  /\ reclaim

-----------------------------------------------------------------------------
Init ==
  /\ entry = [n \in {"path", "tmp"} |-> None]
  /\ content = [i \in {} |-> <<>>]
  /\ save = [p \in Saver |-> idle]
  /\ load = [q \in Loader |-> not_loading]
  /\ loaded = [q \in Loader |-> error("NOT_FOUND")]
  /\ given = {} /\ replaced = None /\ overlapped = FALSE

Next ==
  \/ \E p \in Saver :
       \/ \E s \in Checkpoints : save_begin(p, s)
       \/ save_write(p) \/ save_write_fails(p)
       \/ atomic_replace(p) \/ atomic_replace_fails(p) \/ save_remove_tmp(p)
       \/ crash(p)
  \/ \E q \in Loader : load_open(q) \/ load_read(q) \/ load_finish(q)

Spec == Init /\ [][Next]_vars

-----------------------------------------------------------------------------
(* Properties *)

\* Types of the file, the savers and the loaders; no file and no buffer ever
\* exceeds the size bound of save_durable_state and load_durable_state.
StoreTypeOK ==
  /\ entry \in [{"path", "tmp"} -> Inode \cup {None}]
  /\ DOMAIN content = in_use /\ in_use \subseteq Inode
  /\ \A i \in in_use : Len(content[i]) <= max_persisted_state_bytes
  /\ \A p \in Saver :
       /\ save[p].pc \in {"idle", "writing", "closed", "failed"}
       /\ save[p].state \in Checkpoints \cup {None}
       /\ (save[p].pc = "writing") <=> (save[p].inode \in Inode)
  /\ \A q \in Loader :
       /\ load[q].inode \in Inode \cup {None}
       /\ Len(load[q].bytes) <= load[q].size
       /\ load[q].size <= max_persisted_state_bytes
  /\ given \subseteq Checkpoints /\ replaced \in Checkpoints \cup {None}
  /\ overlapped \in BOOLEAN

\* As long as no two saves have overlapped, what save_durable_state reported
\* as saved is what load_durable_state returns, whatever later saves failed or
\* died half way.
SavedStateLoads ==
  ~ overlapped /\ replaced # None =>
    /\ entry["path"] # None
    /\ deserialize(content[entry["path"]]) = ok(replaced)

\* A load returns only states that were handed to save_durable_state, never
\* a mixture of two saves or of a save and what was in the file before.
LoadsOnlySaved ==
  \A q \in Loader : loaded[q].code = "OK" => loaded[q].state \in given

\* The file under its final name is always one whole frame: it is "written
\* atomically (temp file + atomic replace)".
FileWrittenAtomically ==
  entry["path"] # None =>
    content[entry["path"]] \in {serialize(s) : s \in given}
=============================================================================
