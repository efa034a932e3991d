---------------------------- MODULE Attachments -----------------------------
(***************************************************************************)
(* Files between Telegram and the sandbox (telegram/attachments.rs): what  *)
(* a message carries is fetched to tmp/inbox on the host and uploaded to   *)
(* the sandbox's inbox; what an answer of Claude names is divided into     *)
(* albums and single sends, fetched to tmp/outbox and sent.                *)
(*                                                                         *)
(* The workers of the sessions and the delivery of cron results run side   *)
(* by side and share both host directories, where a file is found by its   *)
(* base name only.  A step is one call that is awaited.  The agent is      *)
(* sandboxed, as by default; removing a file on the host succeeds.         *)
(***************************************************************************)
EXTENDS Naturals, Sequences, FiniteSets
SX == INSTANCE SequencesExt

CONSTANTS
  Workers,      \* tasks that fetch and send, one message or answer at a time
  Answers,      \* what Claude may answer: sequences of [kind, group, name,
                \* caption], name being the base name of the path in the outbox
  Mail,         \* what may arrive: [chat, id, kinds], ids being per chat
  Deaf,         \* kinds of sound that are transcribed, none without STT
  GroupMax,     \* MEDIA_GROUP_MAX
  None,         \* no file, no album, no caption
  MaxJobs,      \* bound: messages and answers handled
  MaxDeaths     \* bound: deaths of the bot

AttachmentKind == {"photo", "document", "video", "audio", "voice", "video_note",
                   "sticker", "animation"}

ASSUME AttachmentsAssumption ==
  /\ GroupMax \in Nat \ {0, 1} /\ MaxJobs \in Nat /\ MaxDeaths \in Nat
  /\ None \notin Workers
  /\ \A answer \in Answers : answer \in Seq(SX!ToSet(answer)) /\ Len(answer) > 0
  /\ \A mail \in Mail : mail.kinds \in Seq(AttachmentKind)

VARIABLES
  job,        \* what each worker is at
  outbox,     \* tmp/outbox: under each base name, whose file, and how old
  intake,     \* tmp/inbox
  inbox,      \* /sandbox/inbox
  jobs, deaths

vars == <<job, outbox, intake, inbox, jobs, deaths>>

-----------------------------------------------------------------------------
(* Which sends an answer takes.                                            *)

\* GroupKind::of: photos and videos mix, a voice is always sent by itself.
GroupKind(kind) ==
  CASE kind \in {"photo", "video"} -> "visual"
    [] kind \in {"document", "audio"} -> kind
    [] OTHER -> None

Singly(members) == [i \in DOMAIN members |-> <<members[i]>>]

\* A fault: chunks_exact, which leaves the remainder out.
ChunksExact(members) ==
  [c \in 1 .. Len(members) \div GroupMax |->
     SubSeq(members, (c - 1) * GroupMax + 1, c * GroupMax)]

Chunks(members) ==
  [c \in 1 .. (Len(members) + GroupMax - 1) \div GroupMax |->
     SubSeq(members, (c - 1) * GroupMax + 1,
               IF c * GroupMax < Len(members) THEN c * GroupMax ELSE Len(members))]

\* A fault: only what can never be grouped is taken out.
PlanUnchecked(answer, members) ==
  IF Len(members) < 2 \/ \E i \in SX!ToSet(members) : GroupKind(answer[i].kind) = None
  THEN Singly(members)
  ELSE Chunks(members)
\* classify_media_group: an album, several albums, or nothing but singles.
Plan(answer, members) ==
  LET kinds == {GroupKind(answer[i].kind) : i \in SX!ToSet(members)}
  IN  IF Len(members) < 2 \/ Cardinality(kinds) > 1 \/ None \in kinds
      THEN Singly(members)
      ELSE Chunks(members)

\* send_single sends a video note and a sticker without a caption; no album
\* has one of them.
Uncaptioned == {"video_note", "sticker"}
OwnCaption(item) ==
  IF item.caption = None \/ item.kind \in Uncaptioned THEN <<>> ELSE <<item.caption>>

\* A fault: each member of an album keeps its own caption.
KeepCaptions(answer, members) ==
  [m \in DOMAIN members |-> OwnCaption(answer[members[m]])]

\* merge_group_captions: the first member carries the captions of all.  (They
\* fit into one caption; what is over its limit is cut off.)
MergeCaptions(answer, members) ==
  [m \in DOMAIN members |->
     IF m = 1 THEN SX!FlattenSeq([k \in DOMAIN members |-> OwnCaption(answer[members[k]])])
     ELSE <<>>]

\* Telegram shows the caption of an album's first member only.
Shown(answer, members) == MergeCaptions(answer, members)[1]

\* The members of a group, as they stand in the answer.
Members(answer, group) ==
  CHOOSE order \in SX!SetToSeqs({i \in DOMAIN answer : answer[i].group = group}) :
    \A m, n \in DOMAIN order : m < n => order[m] < order[n]

\* partition_sends: an album stands where its first member stood.
SendsAt(answer, i) ==
  IF answer[i].group = None THEN <<<<i>>>>
  ELSE LET members == Members(answer, answer[i].group)
       IN  IF i = Head(members) THEN Plan(answer, members) ELSE <<>>
Partition(answer) == SX!FlattenSeq([i \in DOMAIN answer |-> SendsAt(answer, i)])

-----------------------------------------------------------------------------
Names == UNION {{answer[i].name : i \in DOMAIN answer} : answer \in Answers}

\* {kind}_{message_id}_{idx}.{ext}
FileName(mail, i)  == <<mail.kinds[i], mail.id, i>>
FileNames == UNION {{FileName(mail, i) : i \in DOMAIN mail.kinds} : mail \in Mail}

Recent(whose) == [of |-> whose, old |-> FALSE]

Sending(answer) ==
  [op |-> "send", answer |-> answer, sends |-> Partition(answer), step |-> "fetch",
   got |-> <<>>, arrived |-> <<>>, shown |-> <<>>, failed |-> {}]

Receiving(mail) ==
  [op |-> "receive", mail |-> mail, at |-> 1, step |-> "fetch", told |-> {}]

NoJob == [op |-> "none", step |-> "none"]

Init ==
  /\ job = [w \in Workers |-> NoJob]
  /\ outbox = [n \in Names |-> None]
  /\ intake = [n \in FileNames |-> None]
  /\ inbox = [n \in FileNames |-> None]
  /\ jobs = 0 /\ deaths = 0

Is(w, op, step) == job[w].op = op /\ job[w].step = step

Becomes(w, next) == job' = [job EXCEPT ![w] = next]

Begin(w) ==
  /\ job[w] = NoJob
  /\ jobs < MaxJobs
  /\ jobs' = jobs + 1
  /\ \/ \E answer \in Answers : Becomes(w, Sending(answer))
     \/ \E mail \in Mail : Becomes(w, Receiving(mail))
  /\ UNCHANGED <<outbox, intake, inbox, deaths>>

-----------------------------------------------------------------------------
(* An answer's files, one send after the other.                            *)

Files(w)     == job[w].sends[1]
NextFile(w)  == Files(w)[Len(job[w].got) + 1]
Name(w, i)   == job[w].answer[i].name

\* A fault: the members that were fetched are not removed.
GiveUpUntidy(w) ==
  Becomes(w, [job[w] EXCEPT !.step = "tidy", !.got = <<>>,
                            !.failed = @ \cup SX!ToSet(Files(w))])

\* The send is over; what was fetched for it has still to be removed.
GiveUp(w) ==
  Becomes(w, [job[w] EXCEPT !.step = "tidy", !.failed = @ \cup SX!ToSet(Files(w))])

\* download_file: staged beside the file and renamed over it.
Fetch(w) ==
  /\ Is(w, "send", "fetch")
  /\ job[w].sends # <<>>
  /\ \/ /\ outbox' = [outbox EXCEPT ![Name(w, NextFile(w))] = Recent(<<w, NextFile(w)>>)]
        /\ Becomes(w, [job[w] EXCEPT !.step = "measure"])
     \/ GiveUp(w) /\ UNCHANGED outbox        \* outside the outbox, or no download
  /\ UNCHANGED <<intake, inbox, jobs, deaths>>

\* The size of the file, if it is still there.
Measure(w) ==
  LET name == Name(w, NextFile(w))
      Kept == Becomes(w, [job[w] EXCEPT
                !.got = Append(@, NextFile(w)),
                !.step = IF Len(job[w].got) + 1 = Len(Files(w)) THEN "send" ELSE "fetch"])
  IN  /\ Is(w, "send", "measure")
      /\ \/ outbox[name] # None /\ Kept /\ UNCHANGED outbox
         \/ GiveUp(w) /\ outbox' = [outbox EXCEPT ![name] = None]   \* missing or too large
      /\ UNCHANGED <<intake, inbox, jobs, deaths>>

\* A request for the files that were fetched.  Its answer may be lost after
\* Telegram has taken them.
Request(w) ==
  /\ \/ /\ \A m \in DOMAIN Files(w) : outbox[Name(w, Files(w)[m])] # None
        /\ \E heard \in BOOLEAN :
             Becomes(w, [job[w] EXCEPT
               !.step = "tidy",
               !.arrived = @ \o Files(w),
               !.shown = @ \o Shown(job[w].answer, Files(w)),
               !.failed = IF heard THEN @ ELSE @ \cup SX!ToSet(Files(w))])
     \/ GiveUp(w)
  /\ UNCHANGED <<outbox, intake, inbox, jobs, deaths>>

\* send_photo, send_document, ... by its kind.
SendSingle(w) ==
  /\ Is(w, "send", "send")
  /\ Len(Files(w)) = 1
  /\ Request(w)

\* sendMediaGroup, with all members or not at all.
SendGroup(w) ==
  /\ Is(w, "send", "send")
  /\ Len(Files(w)) > 1
  /\ Request(w)

\* cleanup_host_paths and remove_file: one file at a time, then the next send.
Tidy(w) ==
  /\ Is(w, "send", "tidy")
  /\ IF job[w].got = <<>>
     THEN /\ Becomes(w, [job[w] EXCEPT !.sends = Tail(@), !.step = "fetch"])
          /\ UNCHANGED outbox
     ELSE /\ Becomes(w, [job[w] EXCEPT !.got = Tail(@)])
          /\ outbox' = [outbox EXCEPT ![Name(w, Head(job[w].got))] = None]
  /\ UNCHANGED <<intake, inbox, jobs, deaths>>

\* send_attachments returns its failures as one error.  The worker of a session
\* tells it in the chat; the delivery of cron results writes it to the log.
Sent(w) ==
  /\ Is(w, "send", "fetch")
  /\ job[w].sends = <<>>
  /\ Becomes(w, NoJob)
  /\ UNCHANGED <<outbox, intake, inbox, jobs, deaths>>

-----------------------------------------------------------------------------
(* A message's files, one after the other; an error gives up the message.  *)

Current(w) == FileName(job[w].mail, job[w].at)
Kind(w)    == job[w].mail.kinds[job[w].at]

Onward(w, told) ==
  Becomes(w, [job[w] EXCEPT !.at = @ + 1, !.step = "fetch", !.told = told])
Abandon(w) == Becomes(w, NoJob)

\* A file over 20 MB is passed over, with a notice.
Pull(w) ==
  /\ Is(w, "receive", "fetch")
  /\ job[w].at <= Len(job[w].mail.kinds)
  /\ \/ Onward(w, job[w].told) /\ UNCHANGED intake
     \/ /\ intake' = [intake EXCEPT ![Current(w)] = Recent(job[w].mail.chat)]
        /\ \/ Becomes(w, [job[w] EXCEPT !.step = "upload"])
           \/ Abandon(w)                                  \* broken off, part is there
     \/ Abandon(w) /\ UNCHANGED intake
  /\ UNCHANGED <<outbox, inbox, jobs, deaths>>

\* A voice becomes a line of text, whatever the transcription gives.
Transcribe(w) ==
  /\ Is(w, "receive", "upload")
  /\ Kind(w) \in Deaf
  /\ intake' = [intake EXCEPT ![Current(w)] = None]
  /\ Onward(w, job[w].told)
  /\ UNCHANGED <<outbox, inbox, jobs, deaths>>

Upload(w) ==
  /\ Is(w, "receive", "upload")
  /\ Kind(w) \notin Deaf
  /\ \/ /\ intake[Current(w)] # None
        /\ inbox' = [inbox EXCEPT ![Current(w)] = intake[Current(w)]]
        /\ Becomes(w, [job[w] EXCEPT !.step = "remove"])
     \/ Abandon(w) /\ UNCHANGED inbox
  /\ UNCHANGED <<outbox, intake, jobs, deaths>>

Remove(w) ==
  /\ Is(w, "receive", "remove")
  /\ intake' = [intake EXCEPT ![Current(w)] = None]
  /\ Onward(w, job[w].told \cup {Current(w)})
  /\ UNCHANGED <<outbox, inbox, jobs, deaths>>

\* The turn that is told of the files starts, and this job is over.
Received(w) ==
  /\ Is(w, "receive", "fetch")
  /\ job[w].at > Len(job[w].mail.kinds)
  /\ Abandon(w)
  /\ UNCHANGED <<outbox, intake, inbox, jobs, deaths>>

-----------------------------------------------------------------------------
Idle == \A w \in Workers : job[w] = NoJob

Die ==
  /\ deaths < MaxDeaths
  /\ deaths' = deaths + 1
  /\ job' = [w \in Workers |-> NoJob]
  /\ outbox' = [n \in Names |-> IF outbox[n] = None THEN None
                                ELSE [outbox[n] EXCEPT !.of = None]]
  /\ UNCHANGED <<intake, inbox, jobs>>

\* Days pass, in which every job ends.
Aged(files) == [n \in DOMAIN files |-> IF files[n] = None THEN None
                                       ELSE [files[n] EXCEPT !.old = TRUE]]
DaysPass ==
  /\ Idle
  /\ outbox' = Aged(outbox) /\ intake' = Aged(intake) /\ inbox' = Aged(inbox)
  /\ UNCHANGED <<job, jobs, deaths>>

Kept(files) == [n \in DOMAIN files |-> IF files[n] # None /\ files[n].old THEN None
                                       ELSE files[n]]
\* run_cleanup: what is older than the retention, the sandbox first; an error
\* in one directory leaves those after it as they are.
Cleanup ==
  /\ inbox' = Kept(inbox)
  /\ \E reached \in SUBSET {"inbox", "outbox"} :
       /\ intake' = IF "inbox" \in reached THEN Kept(intake) ELSE intake
       /\ "outbox" \in reached => "inbox" \in reached
       /\ outbox' = IF "outbox" \in reached THEN Kept(outbox) ELSE outbox
  /\ UNCHANGED <<job, jobs, deaths>>

Next ==
  \/ \E w \in Workers :
       \/ Begin(w)
       \/ Fetch(w) \/ Measure(w) \/ SendSingle(w) \/ SendGroup(w) \/ Tidy(w) \/ Sent(w)
       \/ Pull(w) \/ Transcribe(w) \/ Upload(w) \/ Remove(w) \/ Received(w)
  \/ Die \/ DaysPass \/ Cleanup

Spec == Init /\ [][Next]_vars

-----------------------------------------------------------------------------
\* When an answer is done with, each of its files has been sent, or is named
\* in the error that send_attachments returns (whether a reader learns of it
\* is its caller's affair), and none was sent twice, however albums were
\* split, degraded or given up; and the captions of all that was sent are
\* shown, save those of video notes and stickers.
AccountedOnce ==
  \A w \in Workers :
    Is(w, "send", "fetch") =>
      /\ SX!IsInjective(job[w].arrived \o SX!FlattenSeq(job[w].sends))
      /\ DOMAIN job[w].answer = SX!ToSet(job[w].arrived \o SX!FlattenSeq(job[w].sends))
                                 \cup job[w].failed
      /\ job[w].shown = SX!FlattenSeq([m \in DOMAIN job[w].arrived |->
                                        OwnCaption(job[w].answer[job[w].arrived[m]])])

\* sendMediaGroup is called with 2 to MEDIA_GROUP_MAX files that may stand
\* together, and a split album or a group of one is sent in single calls.
AlbumsAreAcceptable ==
  \A w \in Workers : job[w].op = "send" =>
    \A i \in DOMAIN job[w].sends :
      LET album == job[w].sends[i]
      IN  Len(album) # 1 =>
            /\ Len(album) \in 2 .. GroupMax
            /\ \E kind \in {"visual", "document", "audio"} :
                 \A m \in DOMAIN album : GroupKind(job[w].answer[album[m]].kind) = kind

\* A file of tmp/outbox is always in some worker's hands, whichever way its
\* send went and whoever else uses the same name, unless a bot died over it.
FilesHaveUsers ==
  \A n \in Names : outbox[n] # None /\ outbox[n].of # None =>
    \E w \in Workers :
      /\ job[w].op = "send" /\ job[w].sends # <<>>
      /\ \/ \E i \in DOMAIN job[w].got : Name(w, job[w].got[i]) = n
         \/ job[w].step = "measure" /\ Name(w, NextFile(w)) = n
=============================================================================
