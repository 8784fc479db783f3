----------------------------- MODULE SocialPublish -----------------------------
(***************************************************************************)
(* The scripts that post approved content packs to social channels and     *)
(* the workflows that run them: a run checks a commit out, posts what is   *)
(* due, records each post in the files of its checkout and pushes them.    *)
(* The platform, the checkout and the branch are three stores with no      *)
(* transaction across them; editors and the runs of other channels push to *)
(* the same branch meanwhile, and a run that has waited for another one    *)
(* starts from the commit of its trigger, however old that is by then.     *)
(***************************************************************************)
EXTENDS Integers, FiniteSets, FiniteSetsExt

CONSTANTS Packs,      \* content packs, in the order in which a scan visits them
          Channels,
          Gated,      \* channels whose workflow asks for a reviewed dry run
          Scheduled,  \* channels whose workflow a clock starts
          Files,      \* by channel, the packs that have a file or section for it
          Parts,      \* by channel, the posts that one pack takes: a root and its replies
          Due,        \* publish_at of each pack
          Configured, \* bound: the sets of channels whose secrets may be set
          MaxClock,   \* bound: the clock
          MaxEdits,   \* bound: approvals given or taken back, and jobs run again, by people
          MaxFaults   \* bound: refused posts, lost answers, failed pushes, killed runs

ASSUME SocialAssumption ==
  /\ Packs \subseteq Nat /\ IsFiniteSet(Packs)
  /\ Gated \subseteq Channels /\ Scheduled \subseteq Channels \ Gated
  /\ Files \in [Channels -> SUBSET Packs]
  /\ Parts \in [Channels -> Nat \ {0}]
  /\ Due \in [Packs -> Nat]
  /\ Configured \subseteq SUBSET Channels
  /\ MaxClock \in Nat /\ MaxEdits \in Nat /\ MaxFaults \in Nat

VARIABLES secrets, \* channels whose secrets are set, from the start to the end
          main,   \* the files on the main branch
          queue,  \* a job of the channel that waits for its turn, with its commit
          run,    \* the run of each channel
          posts,  \* what the platforms show: number of posts that begin a pack
          clock, edits, faults,
          lost    \* history: posts whose record was lost, to a fault or a rejected push

vars == <<secrets, main, queue, run, posts, clock, edits, faults, lost>>

\* behind: main has advanced since the commit.  made: what the run itself has posted.
\* approved: the pack and the channel's section are; recorded: published_at is set.
Trees == [Packs -> [Channels -> [approved : BOOLEAN, recorded : BOOLEAN]]]

Idle == [pc |-> "idle"]
Jobs == {Idle} \cup [pc : {"starting"}, tree : Trees, behind : BOOLEAN]
Runs(c) ==
  Jobs
  \cup [pc : {"checked_out", "reviewed"}, tree : Trees, behind : BOOLEAN]
  \cup [pc : {"live"}, tree : Trees, behind : BOOLEAN, todo : SUBSET Packs, part : 0 .. Parts[c] - 1,
      made : SUBSET Packs, logged : BOOLEAN]

(***************************************************************************)
(* Type correctness of the branch, the checkouts and the scans; a scan is  *)
(* at a part that the pack has (publish_one of the Threads script).        *)
(***************************************************************************)
TypeOK ==
  /\ main \in Trees /\ secrets \subseteq Channels
  /\ queue \in [Channels -> Jobs] /\ \A c \in Channels : run[c] \in Runs(c)
  /\ posts \in [Packs -> [Channels -> Nat]]
  /\ lost \in [Packs -> [Channels -> Nat]]
  /\ clock \in 0 .. MaxClock /\ edits \in 0 .. MaxEdits /\ faults \in 0 .. MaxFaults

Nowhere == [p \in Packs |-> [c \in Channels |-> 0]]

Init ==
  /\ secrets \in Configured
  /\ main = [p \in Packs |-> [c \in Channels |-> [approved |-> p \in Files[c], recorded |-> FALSE]]]
  /\ queue = [c \in Channels |-> Idle] /\ run = [c \in Channels |-> Idle]
  /\ posts = Nowhere /\ lost = Nowhere
  /\ clock = 0 /\ edits = 0 /\ faults = 0

Becomes(c, r) == run' = [run EXCEPT ![c] = r]
Behind(r) == IF r = Idle THEN r ELSE [r EXCEPT !.behind = TRUE]
Fault == faults < MaxFaults /\ faults' = faults + 1

Tick ==
  /\ clock < MaxClock /\ clock' = clock + 1
  /\ UNCHANGED <<secrets, main, queue, run, posts, edits, faults, lost>>

\* An editor pushes a commit that approves a pack for a channel, or takes that back.
Edit(p, c) ==
  /\ p \in Files[c]
  /\ edits < MaxEdits /\ edits' = edits + 1
  /\ main' = [main EXCEPT ![p][c].approved = ~@]
  /\ queue' = [d \in Channels |-> Behind(queue[d])]
  /\ run' = [d \in Channels |-> Behind(run[d])]
  /\ UNCHANGED <<secrets, posts, clock, faults, lost>>

\* A clock or a person asks for a run: the job keeps the commit that main has now, and takes
\* the place of a job that waits.  Without its secrets a run stops at once (check_secrets).
Trigger(c) ==
  /\ c \in secrets \ Gated
  /\ queue' = [queue EXCEPT ![c] = [pc |-> "starting", tree |-> main, behind |-> FALSE]]
  /\ UNCHANGED <<secrets, main, run, posts, clock, edits, faults, lost>>

\* A run starts, one at a time for each channel.  It takes the commit of its trigger, however
\* far main has advanced since; only a gated workflow asks for main itself (ref: main).
Checkout(c) ==
  /\ run[c] = Idle /\ c \in secrets
  /\ \/ /\ c \in Gated
        /\ Becomes(c, [pc |-> "checked_out", tree |-> main, behind |-> FALSE])
        /\ UNCHANGED queue
     \/ /\ c \notin Gated /\ queue[c] # Idle
        /\ Becomes(c, queue[c])
        /\ queue' = [queue EXCEPT ![c] = Idle]
  /\ UNCHANGED <<secrets, main, posts, clock, edits, faults, lost>>

\* A person runs the job again that is about to start: the same commit waits once more.
RunAgain(c) ==
  /\ run[c] = Idle /\ queue[c] # Idle
  /\ edits < MaxEdits /\ edits' = edits + 1
  /\ Becomes(c, queue[c])
  /\ UNCHANGED <<secrets, main, queue, posts, clock, faults, lost>>

\* should_publish, for each pack of the checkout.
Eligible_Anytime(tree, c, now) ==
  {p \in Files[c] : tree[p][c].approved /\ Due[p] <= now}
Eligible(tree, c, now) ==
  {p \in Files[c] : tree[p][c].approved /\ ~tree[p][c].recorded /\ Due[p] <= now}

\* The dry run, and the inputs a person gave: with nothing to post, or with another count
\* than the person expected, the workflow ends here.
DryRun(c) ==
  /\ run[c].pc = "checked_out"
  /\ \/ /\ Eligible(run[c].tree, c, clock) # {}
        /\ Becomes(c, [run[c] EXCEPT !.pc = "reviewed"])
     \/ Becomes(c, Idle)
  /\ UNCHANGED <<secrets, main, queue, posts, clock, edits, faults, lost>>

\* "Verify main has not advanced".
CheckHead(c) ==
  /\ run[c].pc = "reviewed"
  /\ Becomes(c, IF run[c].behind THEN Idle ELSE [run[c] EXCEPT !.pc = "starting"])
  /\ UNCHANGED <<secrets, main, queue, posts, clock, edits, faults, lost>>

\* run_scan takes the time once; nobody else changes the checkout under it.
BeginScan(c) ==
  /\ run[c].pc = "starting"
  /\ Becomes(c, [pc |-> "live", tree |-> run[c].tree, behind |-> run[c].behind,
                 todo |-> Eligible(run[c].tree, c, clock), part |-> 0, made |-> {},
                 logged |-> FALSE])
  /\ UNCHANGED <<secrets, main, queue, posts, clock, edits, faults, lost>>

Scanning(c) == run[c].pc = "live" /\ run[c].todo # {}
Current(c) == Min(run[c].todo)

\* The platform shows a pack from its first part on.
Shown(c) ==
  posts' = IF run[c].part = 0 THEN [posts EXCEPT ![Current(c)][c] = @ + 1] ELSE posts

PostPart(c) ==
  /\ Scanning(c)
  /\ Shown(c)
  /\ IF run[c].part + 1 < Parts[c]
       THEN Becomes(c, [run[c] EXCEPT !.part = @ + 1])
       ELSE Becomes(c, [run[c] EXCEPT !.tree[Current(c)][c].recorded = TRUE,
                                      !.todo = @ \ {Current(c)}, !.part = 0,
                                      !.made = @ \cup {Current(c)}, !.logged = TRUE])
  /\ UNCHANGED <<secrets, main, queue, clock, edits, faults, lost>>

\* The scan logs the error beside the pack and goes on to the next one; where the log is a
\* new file, the git diff of an ungated workflow does not see it.
GiveUp(c) ==
  \E seen \in (IF c \in Gated THEN {TRUE} ELSE {TRUE, run[c].logged}) :
    Becomes(c, [run[c] EXCEPT !.todo = @ \ {Current(c)}, !.part = 0, !.logged = seen])

\* The platform refuses the part: the parts before it stay, without a record.
PostRefused(c) ==
  /\ Scanning(c) /\ Fault
  /\ lost' = IF run[c].part > 0 THEN [lost EXCEPT ![Current(c)][c] = @ + 1] ELSE lost
  /\ GiveUp(c)
  /\ UNCHANGED <<secrets, main, queue, posts, clock, edits>>

\* The part is posted, but the answer does not arrive, or the record cannot be saved.
AnswerLost(c) ==
  /\ Scanning(c) /\ Fault
  /\ Shown(c)
  /\ lost' = [lost EXCEPT ![Current(c)][c] = @ + 1]
  /\ GiveUp(c)
  /\ UNCHANGED <<secrets, main, queue, clock, edits>>

\* Posts that only the run knows of.
Fresh(c, p) == run[c].pc = "live" /\ p \in run[c].made
Partial(c, p) == Scanning(c) /\ run[c].part > 0 /\ Current(c) = p
Forgotten(c) ==
  lost' = [p \in Packs |-> [lost[p] EXCEPT ![c] = IF Fresh(c, p) \/ Partial(c, p) THEN @ + 1 ELSE @]]

Done(c) == run[c].pc = "live" /\ run[c].todo = {}
\* Records or a log of errors make a commit.
Changed(c) == run[c].logged

\* "Commit publication state": git pushes only onto the commit that was checked out.
Published(c) ==
  /\ main' = run[c].tree
  /\ queue' = [d \in Channels |-> Behind(queue[d])]
  /\ run' = [d \in Channels |-> IF d = c THEN Idle ELSE Behind(run[d])]
Push_Retried(c) ==
  /\ Done(c)
  /\ \/ Changed(c) /\ ~run[c].behind /\ Published(c)
     \/ Changed(c) /\ run[c].behind /\ UNCHANGED <<main, queue, run>>
     \/ ~Changed(c) /\ Becomes(c, Idle) /\ UNCHANGED <<main, queue>>
  /\ UNCHANGED <<secrets, posts, clock, edits, faults, lost>>
Push_Forced(c) ==
  /\ Done(c)
  /\ \/ Changed(c) /\ Published(c)
     \/ ~Changed(c) /\ Becomes(c, Idle) /\ UNCHANGED <<main, queue>>
  /\ UNCHANGED <<secrets, posts, clock, edits, faults, lost>>
Push(c) ==
  /\ Done(c)
  /\ \/ Changed(c) /\ ~run[c].behind /\ Published(c) /\ UNCHANGED lost
     \/ Changed(c) /\ run[c].behind /\ Forgotten(c) /\ Becomes(c, Idle) /\ UNCHANGED <<main, queue>>
     \/ ~Changed(c) /\ Becomes(c, Idle) /\ UNCHANGED <<main, queue, lost>>
  /\ UNCHANGED <<secrets, posts, clock, edits, faults>>

\* The run is killed or its push fails: the checkout is gone.
Kill(c) ==
  /\ run[c] # Idle /\ Fault
  /\ Forgotten(c)
  /\ Becomes(c, Idle)
  /\ UNCHANGED <<secrets, main, queue, posts, clock, edits>>

Advance(c) == Checkout(c) \/ DryRun(c) \/ CheckHead(c) \/ BeginScan(c) \/ PostPart(c) \/ Push(c)

Next ==
  \/ Tick
  \/ \E p \in Packs, c \in Channels : Edit(p, c)
  \/ \E c \in Channels : Trigger(c) \/ RunAgain(c) \/ Advance(c) \/ PostRefused(c) \/ AnswerLost(c) \/ Kill(c)

\* The clock runs; a scheduled workflow is asked for again and again, and its steps are run.
Spec ==
  /\ Init /\ [][Next]_vars
  /\ WF_vars(Tick)
  /\ \A c \in Scheduled : WF_vars(Trigger(c)) /\ WF_vars(Advance(c))

One(b) == IF b THEN 1 ELSE 0

(***************************************************************************)
(* Every post on a platform is accounted for: it is recorded on main, or   *)
(* in the hands of the run that made it, or its record was lost to a fault *)
(* or to a push that was rejected.  And whenever a pack that main has as   *)
(* published is posted again, as a job that has waited or is run again     *)
(* does, the checkout has fallen behind main, so that this run will never  *)
(* write over the record (should_publish, save_yaml, the commit step).     *)
(***************************************************************************)
PostsAccounted ==
  \A p \in Packs, c \in Channels :
    /\ posts[p][c] = One(main[p][c].recorded) + One(Fresh(c, p)) + One(Partial(c, p)) + lost[p][c]
    /\ (Fresh(c, p) \/ Partial(c, p)) /\ main[p][c].recorded => run[c].behind

(***************************************************************************)
(* A push by a run takes nothing away: the approvals on main stay as the   *)
(* editors have left them, and the records of other runs stay (git push    *)
(* without force from a checkout of main).                                 *)
(***************************************************************************)
PushKeepsOthers ==
  [][\A p \in Packs, c \in Channels :
       /\ edits' = edits => main'[p][c].approved = main[p][c].approved
       /\ main[p][c].recorded => main'[p][c].recorded]_vars

(***************************************************************************)
(* A pack that stays approved for a scheduled channel is in the end        *)
(* recorded as published there, whatever posts are refused and whatever    *)
(* pushes are rejected on the way (the schedule of telegram-publish.yml).  *)
(***************************************************************************)
EventuallyRecorded ==
  \A c \in Scheduled : \A p \in Files[c] :
    c \in secrets /\ <>[](main[p][c].approved) => <>(main[p][c].recorded)
=============================================================================
