---------------------------- MODULE AttachmentTransfer ----------------------------
(* The way of an attachment to the store of the web channel and back: uploads  *)
(* through the routes of the channel server (kissbot-channel channel_server.rs) *)
(* and the queue of the store (kissbot-channel-web attachment.rs), downloads    *)
(* pushed block by block (messenger.rs) to a client (channel_client.rs) that   *)
(* writes them to a file (kissbot-channel-client-cli main.rs).                 *)
(*                                                                             *)
(* Every message is handled by a task of its own, on both sides.  Blocks are   *)
(* 64 KB of an attachment; its k-th block is <<attachment, k>>.                *)
EXTENDS Naturals, SequencesExt

CONSTANTS
    Attachments,
    Size,            \* blocks of an attachment
    PageUploads,     \* attachments uploaded by the page, in one request
    Downloads,
    Absent,
    MaxChunks,     \* bound on upload requests
    MaxFaults      \* bound on I/O errors, lost connections and restarts

ASSUME TransferAssumption ==
    /\ IsFiniteSet(Attachments) /\ IsFiniteSet(Downloads) /\ Attachments \cap Downloads = {}
    /\ Size \in [Attachments -> Nat] /\ PageUploads \subseteq Attachments
    /\ Absent \notin Attachments \cup Downloads \cup Nat \cup {"ok", "error"}
    /\ Absent \notin Seq(Attachments \X Nat)
    /\ MaxChunks \in Nat /\ MaxFaults \in Nat

VARIABLES
    \* the store
    seq,         \* transfer_id_seq
    uploads,     \* uploads by transfer id: their routes, queues and workers
    temp, files,  \* the files of an attachment; None where there is no file yet
    \* the senders
    tid,         \* the transfer id of the upload
    posted,    \* upload requests under way
    sent,
    acked,       \* the position the sender was told
    \* the downloads
    down,        \* [att, id, pc, pos, live]: the server's side
    info,        \* the header of the download: "none", "wire", "lost", "known"
    cleared,     \* the old file has been removed
    transfers,   \* download_transfer_map
    chunks,      \* <<download, pos>> on the way
    ack,         \* its confirmation
    sink,        \* what the client has written
    printed,     \* the client reported the download complete
    faults,
    mixed        \* what a named window has spoiled

store   == <<seq, uploads, temp, files>>
senders == <<tid, posted, sent, acked>>
serving  == <<down, ack>>
client  == <<info, cleared, transfers, sink, printed>>
pulls   == <<serving, client, chunks>>
transferVars == <<store, senders, pulls, faults, mixed>>

TransferIds == 0..Cardinality(Attachments \cup Downloads)
NoUpload == [att |-> Absent, pc |-> "none", cur |-> 0, queue |-> <<>>, route |-> FALSE]
NoDownload == [att |-> Absent, id |-> 0, pc |-> "none", pos |-> 0, live |-> FALSE]
Ended(u) == [u EXCEPT !.pc = "ended", !.cur = 0, !.queue = <<>>]
Over(e) == [e EXCEPT !.pc = "ended", !.pos = 0, !.live = FALSE]

Blocks(a, p, n) == [k \in 1..n |-> <<a, p + k>>]
Whole(a) == Blocks(a, 0, Size[a])
MayFail == faults < MaxFaults /\ faults' = faults + 1

TransferInit ==
    /\ seq = 0 /\ uploads = [i \in TransferIds |-> NoUpload]
    /\ temp = [a \in Attachments |-> <<>>] /\ files = [a \in Attachments |-> Absent]
    /\ tid = [a \in Attachments |-> Absent] /\ posted = {} /\ sent = 0
    /\ acked = [a \in Attachments |-> 0]
    /\ down = [d \in Downloads |-> NoDownload] /\ ack = [d \in Downloads |-> Absent]
    /\ info = [d \in Downloads |-> "none"] /\ cleared = {}
    /\ transfers = [i \in TransferIds |-> Absent] /\ sink = [d \in Downloads |-> <<>>]
    /\ printed = {} /\ chunks = {} /\ faults = 0 /\ mixed = {}

--------------------------------------------------------------------------------
(* Uploads.                                                                    *)

\* A message with an attachment: register makes the files, the queue and its
\* worker; the server enters the route before it answers an agent.
RegisterUpload(a) ==
    /\ tid[a] = Absent
    /\ tid' = [tid EXCEPT ![a] = seq] /\ seq' = seq + 1
    /\ uploads' = [uploads EXCEPT ![seq] = [att |-> a, pc |-> "run", cur |-> 0,
                                             queue |-> <<>>, route |-> a \notin PageUploads]]
    /\ UNCHANGED <<temp, files, posted, sent, acked, pulls, faults, mixed>>

\* The sender of a chunk may repeat it, or send others before the answer.
SendChunk(a, p, n) ==
    /\ tid[a] # Absent /\ sent < MaxChunks /\ sent' = sent + 1
    /\ a \in PageUploads => p = 0 /\ n = Size[a]
    /\ posted' = posted \cup
         {[no |-> sent, att |-> a, id |-> tid[a], pos |-> p, len |-> n, upto |-> 0,
           stage |-> "sent"]}
    /\ UNCHANGED <<store, tid, acked, pulls, faults, mixed>>

Becomes(r, s) == posted' = (posted \ {r}) \cup {[r EXCEPT !.stage = s]}
Answer(r, s, p) == (posted \ {r}) \cup {[r EXCEPT !.stage = s, !.upto = p]}

\* The handler of a payload finds the route, for an agent, and write_chunk puts
\* the chunk into the queue; a worker that has ended takes no more.  Transfer ids
\* start anew with the store: one from before a restart may be that of another
\* attachment.
WriteChunk(r) ==
    /\ r \in posted /\ r.stage = "sent"
    /\ r.att \in PageUploads \/ uploads[r.id].route
    /\ IF uploads[r.id].pc \in {"run", "finishing"}
       THEN /\ Becomes(r, "queued")
            /\ uploads' = [uploads EXCEPT ![r.id].queue = Append(@, r.no)]
            /\ mixed' = IF uploads[r.id].att = r.att THEN mixed
                          ELSE mixed \cup {uploads[r.id].att, r.att}
       ELSE Becomes(r, "error") /\ UNCHANGED <<uploads, mixed>>
    /\ UNCHANGED <<seq, temp, files, tid, sent, acked, pulls, faults>>

\* AttachmentNotFound.
NotFound(r) ==
    /\ r \in posted /\ r.stage = "sent"
    /\ r.att \notin PageUploads /\ ~uploads[r.id].route
    /\ posted' = posted \ {r}
    /\ UNCHANGED <<store, tid, sent, acked, pulls, faults, mixed>>

\* Mutant: a chunk that was written before is written again.
WritesRepeated(p, cur) == p <= cur
WritesAt(p, cur) == p = cur

Filled(cur, a) == cur >= Size[a]

\* The worker takes a chunk, writes it and answers: a repeated one is not
\* written again, one that is ahead is refused.  The last one ends it.
Work(i) ==
    /\ uploads[i].pc = "run" /\ uploads[i].queue # <<>>
    /\ \E r \in posted : r.stage = "queued" /\ r.no = Head(uploads[i].queue) /\ r.id = i /\
         LET a   == uploads[i].att
             now == WritesAt(r.pos, uploads[i].cur)
             cur == IF now THEN uploads[i].cur + r.len ELSE uploads[i].cur IN
         /\ temp' = IF now THEN [temp EXCEPT ![a] = @ \o Blocks(r.att, r.pos, r.len)]
                    ELSE temp
         /\ uploads' = [uploads EXCEPT ![i].cur = cur, ![i].queue = Tail(@),
                             ![i].pc = IF Filled(cur, a) THEN "finishing" ELSE @]
         /\ posted' = Answer(r, IF r.pos > uploads[i].cur THEN "ahead" ELSE "ok", cur)
    /\ UNCHANGED <<seq, files, tid, sent, acked, pulls, faults, mixed>>

\* The file takes only a part of the chunk.
WorkFails(i) ==
    /\ uploads[i].pc = "run" /\ uploads[i].queue # <<>> /\ MayFail
    /\ \E r \in posted : r.stage = "queued" /\ r.no = Head(uploads[i].queue) /\ r.id = i /\
         /\ r.pos = uploads[i].cur
         /\ \E n \in 0..r.len : temp' =
              [temp EXCEPT ![uploads[i].att] = @ \o Blocks(r.att, r.pos, n)]
         /\ uploads' = [uploads EXCEPT ![i].queue = Tail(@), ![i].pc = "finishing"]
         /\ posted' = Answer(r, "error", 0)
    /\ UNCHANGED <<seq, files, tid, sent, acked, pulls, mixed>>

\* Mutant: the file is renamed however the upload ended.
CompleteAlways(u) == TRUE
Complete(u) == Filled(u.cur, u.att)

\* After the last answer the worker renames the file, if it is complete.
Finish(i) ==
    /\ uploads[i].pc = "finishing"
    /\ uploads' = [uploads EXCEPT ![i] = Ended(@)]
    /\ LET a == uploads[i].att IN
       IF Complete(uploads[i])
       THEN files' = [files EXCEPT ![a] = temp[a]] /\ temp' = [temp EXCEPT ![a] = <<>>]
       ELSE UNCHANGED <<temp, files>>
    /\ UNCHANGED <<seq, senders, pulls, faults, mixed>>

RenameFails(i) ==
    /\ uploads[i].pc = "finishing" /\ Complete(uploads[i]) /\ MayFail
    /\ uploads' = [uploads EXCEPT ![i] = Ended(@)]
    /\ UNCHANGED <<seq, temp, files, senders, pulls, mixed>>

\* A chunk that waits in the queue of a worker that has ended: nobody answers,
\* or its sender learns that the queue is gone.
Abandon(r) ==
    /\ r \in posted /\ r.stage = "queued" /\ uploads[r.id].pc = "ended"
    /\ Becomes(r, "error")
    /\ UNCHANGED <<store, tid, sent, acked, pulls, faults, mixed>>

\* The handler removes the route after the last chunk and after every error,
\* also one that is ahead, and answers.  The page has no route.
Conclude(r) ==
    /\ r \in posted /\ r.stage \in {"ok", "ahead", "error"}
    /\ posted' = posted \ {r}
    /\ acked' = IF r.stage # "ok" THEN acked
                ELSE [acked EXCEPT ![r.att] = IF r.upto > @ THEN r.upto ELSE @]
    /\ LET over == r.pos + r.len >= Size[uploads[r.id].att] \/ r.stage # "ok" IN
       uploads' = IF uploads[r.id].att # Absent /\ over /\ r.att \notin PageUploads
             THEN [uploads EXCEPT ![r.id].route = FALSE] ELSE uploads
    /\ UNCHANGED <<seq, temp, files, tid, sent, pulls, faults, mixed>>

--------------------------------------------------------------------------------
(* Downloads.                                                                  *)

\* The header: a new id and its route, the answer; then the pusher is started.
Header(d, a) ==
    /\ down[d].pc = "none" /\ tid[a] # Absent
    /\ down' = [down EXCEPT ![d] = [att |-> a, id |-> seq, pc |-> "push", pos |-> 0,
                                    live |-> TRUE]]
    /\ seq' = seq + 1 /\ info' = [info EXCEPT ![d] = "wire"]
    /\ UNCHANGED <<uploads, temp, files, senders, ack, cleared, transfers, chunks, sink,
                   printed, faults, mixed>>

\* The pusher sends the next block.  It gives up, and leaves the route, when
\* there is none, the connection is gone or the block cannot be read.
PushBlock(d) ==
    /\ down[d].pc = "push"
    /\ IF /\ down[d].pos < Size[down[d].att]
          /\ down[d].live /\ files[down[d].att] # Absent
       THEN /\ down' = [down EXCEPT ![d].pc = "wait"]
            /\ chunks' = chunks \cup {<<d, down[d].pos>>}
       ELSE /\ down' = [down EXCEPT ![d] = Over(@)]
            /\ UNCHANGED chunks
    /\ UNCHANGED <<store, senders, ack, client, faults, mixed>>

\* Mutant: the next block does not wait for the confirmation.
AnyTime(d) == TRUE
Confirmed(d) == ack[d] # Absent

\* The confirmation ends the download or lets the next block go.
Acked(d) ==
    /\ down[d].pc = "wait" /\ Confirmed(d)
    /\ ack' = [ack EXCEPT ![d] = Absent]
    /\ LET e == down[d] IN
       down' = [down EXCEPT ![d] =
         IF ack[d] = "error" \/ e.pos + 1 >= Size[e.att] THEN Over(e)
         ELSE [e EXCEPT !.pos = e.pos + 1, !.pc = "push"]]
    /\ UNCHANGED <<store, senders, client, chunks, faults, mixed>>

--------------------------------------------------------------------------------
\* The client takes the header,
Learn(d) ==
    /\ info[d] = "wire" /\ info' = [info EXCEPT ![d] = "known"]
    /\ transfers' = [transfers EXCEPT ![down[d].id] = d]
    /\ UNCHANGED <<store, senders, serving, cleared, chunks, sink, printed, faults,
                   mixed>>

\* ... and removes an older file, while blocks may have come already.
Clear(d) ==
    /\ info[d] = "known" /\ d \notin cleared /\ cleared' = cleared \cup {d}
    /\ sink' = [sink EXCEPT ![d] = <<>>]
    /\ mixed' = IF sink[d] = <<>> THEN mixed ELSE mixed \cup {d}
    /\ UNCHANGED <<store, senders, serving, info, transfers, chunks, printed, faults>>

\* The confirmation, if the pusher is still there.
Confirm(d, s) == ack' = [ack EXCEPT ![d] = IF down[d].pc = "wait" THEN s ELSE Absent]

\* A block is written to the file of the download the client has under its id,
\* which may be one of before a restart of the server.
Take(d, p) ==
    /\ <<d, p>> \in chunks /\ transfers[down[d].id] # Absent
    /\ chunks' = chunks \ {<<d, p>>} /\ Confirm(d, "ok")
    /\ LET e == transfers[down[d].id] IN
       /\ sink' = [sink EXCEPT ![e] = Append(@, files[down[d].att][p + 1])]
       /\ mixed' = IF e = d THEN mixed ELSE mixed \cup {d, e}
       /\ IF p + 1 >= Size[down[e].att]
          THEN /\ printed' = printed \cup {e}
               /\ transfers' = [transfers EXCEPT ![down[d].id] = Absent]
          ELSE UNCHANGED <<printed, transfers>>
    /\ UNCHANGED <<store, senders, down, info, cleared, faults>>

\* It cannot be written.
TakeFails(d, p) ==
    /\ <<d, p>> \in chunks /\ transfers[down[d].id] # Absent /\ MayFail
    /\ chunks' = chunks \ {<<d, p>>} /\ Confirm(d, "error")
    /\ transfers' = [transfers EXCEPT ![down[d].id] = Absent]
    /\ UNCHANGED <<store, senders, down, info, cleared, sink, printed, mixed>>

\* No header within two seconds.
Unknown(d, p) ==
    /\ <<d, p>> \in chunks /\ transfers[down[d].id] = Absent
    /\ chunks' = chunks \ {<<d, p>>} /\ Confirm(d, "error")
    /\ UNCHANGED <<store, senders, down, client, faults, mixed>>

--------------------------------------------------------------------------------
\* The connection is lost: the pusher that waits has an error.  Blocks that have
\* arrived are still handled.
Cut(d) == IF down[d].pc = "wait" THEN Over(down[d]) ELSE [down[d] EXCEPT !.live = FALSE]
Unanswered == ack' = [d \in Downloads |-> Absent]
Unheard == info' = [d \in Downloads |-> IF info[d] = "wire" THEN "lost" ELSE info[d]]

LoseConnection ==
    /\ MayFail
    /\ down' = [d \in Downloads |-> Cut(d)] /\ Unheard /\ Unanswered
    /\ UNCHANGED <<store, senders, cleared, transfers, chunks, sink, printed,
                   mixed>>

\* The server keeps its files; the clients keep what they know.
ServerRestarts ==
    /\ MayFail
    /\ seq' = 0 /\ uploads' = [i \in TransferIds |-> NoUpload] /\ posted' = {}
    /\ down' = [d \in Downloads |-> IF down[d].pc = "none" THEN down[d]
                                     ELSE Over(down[d])]
    /\ Unheard /\ Unanswered
    /\ UNCHANGED <<temp, files, tid, sent, acked, cleared, transfers, chunks, sink,
                   printed, mixed>>

UploadNext ==
    \/ \E a \in Attachments :
         RegisterUpload(a) \/ \E p \in 0..Size[a] : \E n \in 1..Size[a] - p : SendChunk(a, p, n)
    \/ \E r \in posted : WriteChunk(r) \/ NotFound(r) \/ Abandon(r) \/ Conclude(r)
    \/ \E i \in TransferIds : Work(i) \/ WorkFails(i) \/ Finish(i) \/ RenameFails(i)

DownloadNext ==
    \E d \in Downloads :
        \/ \E a \in Attachments : Header(d, a)
        \/ PushBlock(d) \/ Acked(d) \/ Learn(d) \/ Clear(d)
        \/ \E c \in chunks : c[1] = d /\
             (Take(d, c[2]) \/ TakeFails(d, c[2]) \/ Unknown(d, c[2]))

TransferNext == UploadNext \/ DownloadNext \/ LoseConnection \/ ServerRestarts
TransferSpec == TransferInit /\ [][TransferNext]_transferVars

--------------------------------------------------------------------------------
Content(a) == IF files[a] = Absent THEN temp[a] ELSE files[a]

\* What a sender was told is written, in the right order and once, and a file
\* that has its name is whole: with chunks repeated, sent ahead and handled in
\* any order, chunks written in part, and restarts.  Only an id that outlived
\* the store spoils it (docs: repeated chunks are idempotent; an upload that is
\* not finished makes no file).
UploadKept ==
    \A a \in Attachments \ mixed :
        /\ files[a] # Absent => files[a] = Whole(a)
        /\ SubSeq(Content(a), 1, acked[a]) = Blocks(a, 0, acked[a])

\* What a client has written is the beginning of the attachment, all of its
\* declared size when the download is reported: the header races the first block,
\* connections are lost, blocks refused.  Excepted are the removal of the old file
\* that comes after the first block, and ids that outlived the store.
DownloadKept ==
    \A d \in Downloads \ mixed :
        LET a == down[d].att IN
        /\ sink[d] # <<>> => IsPrefix(sink[d], files[a])
        /\ d \in printed => sink[d] = SubSeq(files[a], 1, Size[a])
================================================================================
