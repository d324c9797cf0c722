---------------------------- MODULE SessionContext -----------------------------
(***************************************************************************)
(* The context of one LLM session (kissbot-llm, session.rs): the messages  *)
(* in memory, the cache file they are recovered from after a restart, and  *)
(* the history files they are archived to before the cache is removed.     *)
(*                                                                         *)
(* The session's mutex lets one operation run at a time.  An operation is  *)
(* a series of awaited file-system calls, each an action here: the process *)
(* can crash between any two of them and any of them can fail, which ends  *)
(* the operation with an error (`?`).  Every operation is an instance of   *)
(* one scheme, whose steps an operation may skip:                          *)
(*    archive the memory; remove the cache file and cut the memory down to *)
(*    `rest`; open the cache file; write `left` to it; add `batch` to the  *)
(*    memory.                                                              *)
(***************************************************************************)
EXTENDS Naturals, Sequences

CONSTANTS
    Bodies,      (* the messages other than system messages                      *)
    Texts,       (* the texts of system messages                                 *)
    NoText,      (* stands for "no system message"                               *)
    Faults,      (* what the environment does beyond crashing, see FaultKinds    *)
    MaxContext,  (* bound: messages in memory, and lines in the cache file       *)
    MaxNow       (* bound: the last second of the model                          *)

(* "io":    a file-system call fails without effect                           *)
(* "torn":  a crash or an error falls between a line and its newline, which   *)
(*          are two writes, the last of them in flight when append returns    *)
(* "clock": two archives are written within one second                        *)
(* "read":  the cache file cannot be read back                                *)
FaultKinds == {"io", "torn", "clock", "read"}

ASSUME ContextAssumption ==
    /\ Bodies \intersect Texts = {}
    /\ NoText \notin Texts
    /\ Faults \subseteq FaultKinds
    /\ MaxContext \in Nat
    /\ MaxNow \in Nat

VARIABLES
    now,        (* the wall clock in seconds, the resolution of a history file's name *)
    messages,   (* the messages in memory                                             *)
    system,     (* the current system message                                         *)
    pending,    (* the system message set and not applied yet                         *)
    exists,     (* whether there is a cache file                                      *)
    cache,      (* its entries, in order                                              *)
    glued,      (* positions of entries that share their line with another entry      *)
    cut,        (* whether the last line lacks its newline                            *)
    history,    (* history[t]: what the history file named after the second t holds     *)
    pc,         (* the step of the operation under way                                *)
    op,         (* the operation                                                      *)
    rest,       (* what the memory is cut down to when the cache file is removed      *)
    fresh,      (* the system message from then on                                    *)
    batch,      (* what the operation adds to the memory at its end                   *)
    dump,       (* entries still to be written to the history file                    *)
    dest,       (* the second that file is named after                                *)
    left,       (* entries still to be written to the cache file                      *)
    acked,      (* ghost: every message whose append reported success                 *)
    behind,     (* ghost: a write to the present cache file has failed                *)
    spoiled     (* ghost: a line was torn, an archive overwritten or a cache unread   *)

memory == <<messages, system, pending>>
file == <<exists, cache, glued, cut>>
job == <<op, rest, fresh, batch, dump, dest, left>>
ghosts == <<acked, behind, spoiled>>
vars == <<now, memory, file, history, pc, job, ghosts>>

Entries == Bodies \union Texts
Operations == {"none", "append", "apply", "revert", "reset"}
Steps == {"down", "idle", "create", "dump", "remove", "open", "system", "lines"}

Elements(s) == {s[i] : i \in 1..Len(s)}

(* Mutant: a System line is written without a system message.                 *)
SystemLineAlways(s) == <<s>>

(* The System line, if there is a system message.                             *)
SystemLine(s) == IF s = NoText THEN <<>> ELSE <<s>>

Init ==
    /\ now = 0
    /\ messages = <<>>
    /\ system = NoText
    /\ pending = NoText
    /\ exists = FALSE
    /\ cache = <<>>
    /\ glued = {}
    /\ cut = FALSE
    /\ history = [t \in 0..MaxNow |-> {}]
    /\ pc = "idle"
    /\ op = "none"
    /\ rest = <<>>
    /\ fresh = NoText
    /\ batch = <<>>
    /\ dump = <<>>
    /\ dest = 0
    /\ left = <<>>
    /\ acked = {}
    /\ behind = FALSE
    /\ spoiled = FALSE

-------------------------------------------------------------------------------
(* The operations                                                             *)

(* The local variables of an operation end with it.                           *)
EndJob ==
    /\ op' = "none"
    /\ rest' = <<>>
    /\ fresh' = NoText
    /\ batch' = <<>>
    /\ dump' = <<>>
    /\ dest' = 0
    /\ left' = <<>>

Start(o, first, keep, text, new) ==
    /\ pc = "idle"
    /\ pc' = first
    /\ op' = o
    /\ rest' = keep
    /\ fresh' = text
    /\ batch' = new
    /\ left' = new
    /\ UNCHANGED <<now, messages, system, file, history, dump, dest, ghosts>>

(* Mutant: the cache is cleared without an archive.                           *)
ArchiveFirstSkipped == "remove"

(* archive_and_clear starts with the archive, and skips it for empty memory.  *)
ArchiveFirst == IF messages = <<>> THEN "remove" ELSE "create"

(* append: an empty list returns at once and changes nothing.                 *)
AppendMessages(new) ==
    /\ new # <<>>
    /\ Len(messages) + Len(new) <= MaxContext
    /\ Len(cache) + Len(new) <= MaxContext + 1
    /\ Start("append", "open", messages, system, new)
    /\ UNCHANGED pending

(* set_system_message: only the latest pending text is kept.                  *)
SetSystem(text) ==
    /\ pc = "idle"
    /\ pending' = text
    /\ UNCHANGED <<now, messages, system, file, history, pc, job, ghosts>>

(* apply_pending_system, called when the context is built for a request.      *)
ApplyPending ==
    /\ pc = "idle"
    /\ pending # NoText
    /\ pending' = NoText
    /\ IF pending = system
       THEN UNCHANGED <<now, messages, system, file, history, pc, job, ghosts>>
       ELSE Start("apply", ArchiveFirst, messages, pending, <<>>)

(* revert_until: the messages after the first `keep` do not meet the          *)
(* condition; when there are none nothing happens.                            *)
Revert(keep) ==
    /\ keep < Len(messages)
    /\ Start("revert", "create", SubSeq(messages, 1, keep), system, <<>>)
    /\ UNCHANGED pending

(* archive_and_clear_cache_and_reset_messages(Some(new))                      *)
Reset(new) ==
    /\ Start("reset", ArchiveFirst, <<>>, system, new)
    /\ UNCHANGED pending

-------------------------------------------------------------------------------
(* The steps of an operation                                                  *)

(* The history file is named after the present second and truncated.          *)
CreateArchive ==
    /\ pc = "create"
    /\ "clock" \in Faults \/ history[now] = {}
    /\ history' = [history EXCEPT ![now] = {}]
    /\ spoiled' = (spoiled \/ history[now] # {})
    /\ dest' = now
    /\ dump' = SystemLine(system) \o messages
    /\ pc' = "dump"
    /\ UNCHANGED <<now, memory, file, op, rest, fresh, batch, left, acked, behind>>

DumpLine ==
    /\ pc = "dump"
    /\ IF dump = <<>>
       THEN /\ pc' = "remove"
            /\ UNCHANGED <<history, dump>>
       ELSE /\ history' = [history EXCEPT ![dest] = @ \union {Head(dump)}]
            /\ dump' = Tail(dump)
            /\ UNCHANGED pc
    /\ UNCHANGED <<now, memory, file, op, rest, fresh, batch, dest, left, ghosts>>

(* The cache file is removed, then the memory changes; what is left of it is  *)
(* written back, and an apply or a reset with nothing to write returns.       *)
RemoveCache ==
    /\ pc = "remove"
    /\ exists' = FALSE
    /\ cache' = <<>>
    /\ glued' = {}
    /\ cut' = FALSE
    /\ behind' = FALSE
    /\ messages' = rest
    /\ system' = fresh
    /\ IF rest \o batch = <<>> /\ op # "revert"
       THEN /\ pc' = "idle"
            /\ EndJob
       ELSE /\ pc' = "open"
            /\ left' = rest \o batch
            /\ UNCHANGED <<op, rest, fresh, batch, dump, dest>>
    /\ UNCHANGED <<now, pending, history, acked, spoiled>>

(* Mutant: a new file gets no System line.                                    *)
OpenCacheNoSystem ==
    /\ pc = "open"
    /\ exists' = TRUE
    /\ pc' = "lines"
    /\ UNCHANGED <<now, memory, cache, glued, cut, history, job, ghosts>>

(* Only a new file gets the System line.                                      *)
OpenCache ==
    /\ pc = "open"
    /\ exists' = TRUE
    /\ pc' = IF exists \/ system = NoText THEN "lines" ELSE "system"
    /\ UNCHANGED <<now, memory, cache, glued, cut, history, job, ghosts>>

(* An entry is appended; after a line without newline it joins that line.     *)
Write(e, newline) ==
    /\ cache' = Append(cache, e)
    /\ glued' = IF cut THEN glued \union {Len(cache), Len(cache) + 1} ELSE glued
    /\ cut' = ~newline
    /\ UNCHANGED exists

WriteSystemLine ==
    /\ pc = "system"
    /\ Write(system, TRUE)
    /\ pc' = "lines"
    /\ UNCHANGED <<now, memory, history, job, ghosts>>

WriteLine ==
    /\ pc = "lines"
    /\ left # <<>>
    /\ Write(Head(left), TRUE)
    /\ left' = Tail(left)
    /\ UNCHANGED <<now, memory, history, pc, op, rest, fresh, batch, dump, dest, ghosts>>

Return ==
    /\ pc = "lines"
    /\ left = <<>>
    /\ messages' = messages \o batch
    /\ acked' = acked \union Elements(batch)
    /\ pc' = "idle"
    /\ EndJob
    /\ UNCHANGED <<now, system, pending, file, history, behind, spoiled>>

-------------------------------------------------------------------------------
(* Failures                                                                   *)

(* The call of the present step fails and the operation returns the error.    *)
Fail ==
    /\ "io" \in Faults
    /\ \/ pc \in {"create", "dump", "remove", "open", "system"}
       \/ pc = "lines" /\ left # <<>>
    /\ behind' = (behind \/ pc \in {"open", "system", "lines"})
    /\ pc' = "idle"
    /\ EndJob
    /\ UNCHANGED <<now, memory, file, history, acked, spoiled>>

Forget ==
    /\ pc' = "down"
    /\ messages' = <<>>
    /\ system' = NoText
    /\ pending' = NoText

Crash ==
    /\ pc # "down"
    /\ Forget
    /\ EndJob
    /\ UNCHANGED <<now, file, history, ghosts>>

(* A line is written and its newline is not, by a crash or an error; or the   *)
(* newline that ended the last operation is lost in a crash.                  *)
CutLine ==
    /\ "torn" \in Faults
    /\ \/ /\ pc = "system"
          /\ Write(system, FALSE)
       \/ /\ pc = "lines"
          /\ left # <<>>
          /\ Write(Head(left), FALSE)
       \/ /\ pc = "idle"
          /\ cache # <<>>
          /\ cut' = TRUE
          /\ UNCHANGED <<exists, cache, glued>>
    /\ \/ Forget
       \/ /\ pc # "idle"
          /\ pc' = "idle"
          /\ UNCHANGED memory
    /\ behind' = TRUE
    /\ spoiled' = TRUE
    /\ EndJob
    /\ UNCHANGED <<now, history, acked>>

(* The entries of the lines that hold one entry each.                         *)
Readable ==
    IF glued = {}
    THEN cache
    ELSE LET position == SelectSeq([i \in 1..Len(cache) |-> i], LAMBDA i : i \notin glued)
         IN  [i \in 1..Len(position) |-> cache[position[i]]]

StartsWithSystem(lines) == lines # <<>> /\ Head(lines) \in Texts

(* The process comes back: a new session and recover_from_cache, whose error  *)
(* the session manager ignores.  The messages are the whole file but for a    *)
(* leading System line.                                                       *)
Recover ==
    /\ pc = "down"
    /\ pc' = "idle"
    /\ \/ /\ system' = IF StartsWithSystem(Readable) THEN Head(Readable) ELSE NoText
          /\ messages' = IF StartsWithSystem(Readable) THEN Tail(Readable) ELSE Readable
          /\ behind' = (glued # {} \/ cut)
          /\ UNCHANGED spoiled
       \/ /\ "read" \in Faults
          /\ exists
          /\ behind' = TRUE
          /\ spoiled' = TRUE
          /\ UNCHANGED <<messages, system>>
    /\ UNCHANGED <<now, pending, file, history, job, acked>>

Tick ==
    /\ now < MaxNow
    /\ now' = now + 1
    /\ UNCHANGED <<memory, file, history, pc, job, ghosts>>

(* One or two messages at a time, or none for a reset.                        *)
Batches == {<<>>} \union {<<a>> : a \in Bodies} \union (Bodies \X Bodies)

Next ==
    \/ \E new \in Batches : AppendMessages(new) \/ Reset(new)
    \/ \E text \in Texts : SetSystem(text)
    \/ ApplyPending
    \/ \E keep \in 0..MaxContext : Revert(keep)
    \/ CreateArchive \/ DumpLine \/ RemoveCache
    \/ OpenCache \/ WriteSystemLine \/ WriteLine \/ Return
    \/ Fail \/ Crash \/ CutLine \/ Recover
    \/ Tick

Spec == Init /\ [][Next]_vars

-------------------------------------------------------------------------------
TypeOK ==
    /\ now \in 0..MaxNow
    /\ messages \in Seq(Entries)
    /\ system \in Texts \union {NoText}
    /\ pending \in Texts \union {NoText}
    /\ exists \in BOOLEAN
    /\ cache \in Seq(Entries)
    /\ glued \in SUBSET Nat
    /\ cut \in BOOLEAN
    /\ history \in [0..MaxNow -> SUBSET Entries]
    /\ pc \in Steps
    /\ op \in Operations
    /\ rest \in Seq(Entries)
    /\ fresh \in Texts \union {NoText}
    /\ batch \in Seq(Bodies)
    /\ dump \in Seq(Entries)
    /\ dest \in 0..MaxNow
    /\ left \in Seq(Entries)
    /\ acked \in SUBSET Bodies
    /\ behind \in BOOLEAN
    /\ spoiled \in BOOLEAN

Archived == UNION {history[t] : t \in 0..MaxNow}

(* Nothing that was appended is ever lost: whatever crashes and I/O errors    *)
(* happen within whatever operation, a message whose append succeeded is in   *)
(* the cache file or in a history file, unless a line was torn, two archives  *)
(* met in one second or the cache could not be read.  Archiving before        *)
(* removing the cache, and appending to it before the memory, are there for   *)
(* this.                                                                      *)
NoContextLost == ~spoiled => acked \subseteq Elements(cache) \union Archived

(* Between operations a restart would read back exactly what the model is     *)
(* sent, unless a write to this very file failed or the last read of it did.  *)
(* In particular the System line is the current system message, although it   *)
(* is written only when the file is created.                                  *)
CacheMirrorsMemory ==
    (pc = "idle" /\ ~behind) =>
        IF exists THEN Readable = SystemLine(system) \o messages ELSE messages = <<>>
================================================================================
