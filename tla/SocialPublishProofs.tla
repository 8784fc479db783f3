-------------------------- MODULE SocialPublishProofs --------------------------
(***************************************************************************)
(* Proofs about SocialPublish, for any packs, channels, parts and times:   *)
(* every post is accounted for, and a push by a run takes nothing away.    *)
(*                                                                         *)
(* The argument is about one run at a time.  As long as main has not       *)
(* advanced, its checkout is main with the records of the run added; once  *)
(* main has, nothing of the checkout will reach it.                        *)
(***************************************************************************)
EXTENDS SocialPublish, WellFoundedInduction, TLAPS

RecordTypes ==
  /\ main \in Trees /\ secrets \subseteq Channels
  /\ queue \in [Channels -> Jobs] /\ run = [c \in Channels |-> run[c]]
  /\ posts \in [Packs -> [Channels -> Nat]]
  /\ lost \in [Packs -> [Channels -> Nat]]
  /\ clock \in 0 .. MaxClock /\ edits \in 0 .. MaxEdits /\ faults \in 0 .. MaxFaults

\* A job that waits has the tree of main, as long as main has not advanced.
Waits(j) == j # Idle /\ ~j.behind => j.tree = main

\* What the checkout of run r of channel c knows of main while that has not advanced.
Knows(c, r) ==
  r # Idle /\ ~r.behind =>
    /\ \A p \in Packs, d \in Channels :
         /\ r.tree[p][d].approved = main[p][d].approved
         /\ d # c => r.tree[p][d].recorded = main[p][d].recorded
    /\ \A p \in Packs :
         /\ main[p][c].recorded => r.tree[p][c].recorded
         /\ r.tree[p][c].recorded =>
              main[p][c].recorded \/ (r.pc = "live" /\ p \in r.made)
    /\ r.pc = "live" => \A p \in r.made : ~main[p][c].recorded

\* A scan has no record of what it has still to post, and logs the records it makes.
Scans(c, r) ==
  r.pc = "live" =>
    /\ \A p \in r.todo : ~r.tree[p][c].recorded
    /\ \A p \in r.made : r.tree[p][c].recorded
    /\ ~r.logged => r.made = {}

Sound(c, r) == r \in Runs(c) /\ Knows(c, r) /\ Scans(c, r)

\* Posts of pack p that run r has made or begun.
Held(c, r, p) ==
  One(r.pc = "live" /\ p \in r.made)
  + One((r.pc = "live" /\ r.todo # {}) /\ r.part > 0 /\ Min(r.todo) = p)

Balanced(c, r) ==
  \A p \in Packs : posts[p][c] = One(main[p][c].recorded) + Held(c, r, p) + lost[p][c]

IInv ==
  /\ RecordTypes
  /\ \A c \in Channels : Sound(c, run[c]) /\ Balanced(c, run[c]) /\ Waits(queue[c])

-----------------------------------------------------------------------------
(* Runs and their fields.                                                  *)

\* The pack that a scan is at is one it has still to post.
LEMMA MinIn ==
  ASSUME NEW S, S \subseteq Nat, S # {}
  PROVE  Min(S) \in S
<1>. DEFINE R == {pair \in Nat \X Nat : pair[1] < pair[2]}
<1>1. IsWellFoundedOn(R, Nat)
  BY NatLessThanWellFounded DEF OpToRel
<1>. HIDE DEF R
<1>2. PICK x \in S : \A y \in S : ~ (<<y, x>> \in R)
  BY <1>1, WFMin
<1>3. \A y \in S : x <= y
  <2>. SUFFICES ASSUME NEW y \in S PROVE x <= y
    OBVIOUS
  <2>1. x \in Nat /\ y \in Nat /\ <<y, x>> \in Nat \X Nat
    OBVIOUS
  <2>2. <<y, x>> \in R <=> y < x
    BY <2>1 DEF R
  <2>. QED BY <1>2, <2>1, <2>2
<1>. QED BY <1>3 DEF Min

LEMMA HeldIs ==
  ASSUME NEW c, NEW p
  PROVE  Held(c, run[c], p) = One(Fresh(c, p)) + One(Partial(c, p))
BY DEF Held, Fresh, Partial, Scanning, Current

LEMMA RunFields ==
  ASSUME NEW c \in Channels, NEW r \in Runs(c), r # Idle
  PROVE  /\ r.tree \in Trees /\ r.behind \in BOOLEAN
         /\ r.pc \in {"checked_out", "reviewed", "starting", "live"}
         /\ r.pc # "live" => r = [pc |-> r.pc, tree |-> r.tree, behind |-> r.behind]
         /\ r.pc = "live" =>
              /\ r.todo \subseteq Packs /\ r.part \in 0 .. Parts[c] - 1
              /\ r.made \subseteq Packs /\ r.logged \in BOOLEAN
              /\ r = [pc |-> "live", tree |-> r.tree, behind |-> r.behind, todo |-> r.todo,
                      part |-> r.part, made |-> r.made, logged |-> r.logged]
BY DEF Runs, Jobs

LEMMA WaitingRun ==
  ASSUME NEW c \in Channels, NEW pc \in {"checked_out", "reviewed", "starting"},
         NEW tree \in Trees, NEW behind \in BOOLEAN
  PROVE  [pc |-> pc, tree |-> tree, behind |-> behind] \in Runs(c)
BY DEF Runs, Jobs

LEMMA LiveRun ==
  ASSUME NEW c \in Channels, NEW tree \in Trees, NEW behind \in BOOLEAN,
         NEW todo \in SUBSET Packs, NEW part \in 0 .. Parts[c] - 1,
         NEW made \in SUBSET Packs, NEW logged \in BOOLEAN
  PROVE  [pc |-> "live", tree |-> tree, behind |-> behind, todo |-> todo, part |-> part,
          made |-> made, logged |-> logged] \in Runs(c)
BY DEF Runs

LEMMA IdleRun ==
  ASSUME NEW c \in Channels
  PROVE  Sound(c, Idle) /\ \A p \in Packs : Held(c, Idle, p) = 0
BY DEF Sound, Runs, Jobs, Knows, Scans, Idle, Held, One

\* A step of the run of one channel that leaves main alone.
LEMMA OwnStep ==
  ASSUME IInv, NEW c \in Channels, NEW r, Sound(c, r), Becomes(c, r),
         UNCHANGED <<main, secrets>>, RecordTypes',
         queue' = queue \/ queue' = [queue EXCEPT ![c] = Idle],
         \A p \in Packs : posts'[p][c] = One(main[p][c].recorded) + Held(c, r, p) + lost'[p][c],
         \A p \in Packs : \A d \in Channels \ {c} :
           posts'[p][d] = posts[p][d] /\ lost'[p][d] = lost[p][d]
  PROVE  IInv'
<1>0. \A d \in Channels : Waits(queue[d])'
  BY DEF IInv, RecordTypes, Waits
<1>. SUFFICES ASSUME NEW d \in Channels PROVE Sound(d, run[d])' /\ Balanced(d, run[d])'
  BY <1>0 DEF IInv
<1>1. run'[c] = r /\ (d # c => run'[d] = run[d])
  BY DEF IInv, RecordTypes, Becomes
<1>2. CASE d = c
  BY <1>1, <1>2 DEF Sound, Knows, Scans, Balanced, Held
<1>3. CASE d # c
  <2>1. Sound(d, run[d]) /\ Balanced(d, run[d])
    BY DEF IInv
  <2>. QED BY <1>1, <1>3, <2>1 DEF Sound, Knows, Scans, Balanced, Held
<1>. QED BY <1>2, <1>3

\* A step that leaves posts and losses alone as well.
LEMMA QuietStep ==
  ASSUME IInv, NEW c \in Channels, NEW r, Sound(c, r), Becomes(c, r),
         UNCHANGED <<main, secrets, posts, clock, faults, lost>>, edits' \in 0 .. MaxEdits,
         queue' = queue \/ queue' = [queue EXCEPT ![c] = Idle],
         \A p \in Packs : Held(c, r, p) = Held(c, run[c], p)
  PROVE  IInv'
<1>1. RecordTypes'
  BY DEF IInv, RecordTypes, Becomes, Jobs
<1>2. Balanced(c, run[c])
  BY DEF IInv
<1>. QED BY <1>1, <1>2, OwnStep DEF Balanced

-----------------------------------------------------------------------------
(* The steps of a run before it posts.                                     *)

LEMMA CheckoutKeeps ==
  ASSUME IInv, NEW c \in Channels, Checkout(c) \/ RunAgain(c)
  PROVE  IInv'
<1>1. /\ run[c] = Idle /\ UNCHANGED <<main, secrets, posts, clock, faults, lost>>
      /\ queue' = queue \/ queue' = [queue EXCEPT ![c] = Idle]
  BY DEF Checkout, RunAgain
<1>2. edits' \in 0 .. MaxEdits
  BY SocialAssumption DEF Checkout, RunAgain, IInv, RecordTypes
<1>3. PICK r : /\ Becomes(c, r)
               /\ \/ r = [pc |-> "checked_out", tree |-> main, behind |-> FALSE]
                  \/ r # Idle /\ r = queue[c]
  BY DEF Checkout, RunAgain
<1>4. /\ r.pc \in {"checked_out", "starting"} /\ r.tree \in Trees /\ r.behind \in BOOLEAN
      /\ r = [pc |-> r.pc, tree |-> r.tree, behind |-> r.behind]
      /\ ~r.behind => r.tree = main
  <2>1. CASE r = [pc |-> "checked_out", tree |-> main, behind |-> FALSE]
    BY <2>1 DEF IInv, RecordTypes
  <2>2. CASE r # Idle /\ r = queue[c]
    <3>1. r \in [pc : {"starting"}, tree : Trees, behind : BOOLEAN] /\ Waits(r)
      BY <2>2 DEF IInv, RecordTypes, Jobs
    <3>. QED BY <2>2, <3>1 DEF Waits
  <2>. QED BY <1>3, <2>1, <2>2
<1>5. r \in Runs(c)
  BY <1>4, WaitingRun
<1>6. Sound(c, r) /\ \A p \in Packs : Held(c, r, p) = 0
  BY <1>4, <1>5 DEF Sound, Knows, Scans, Held, One
<1>7. \A p \in Packs : Held(c, run[c], p) = 0
  BY <1>1, IdleRun
<1>. QED BY <1>1, <1>2, <1>3, <1>6, <1>7, QuietStep

\* A job that waits is no run yet.
LEMMA TriggerKeeps ==
  ASSUME IInv, NEW c \in Channels, Trigger(c)
  PROVE  IInv'
<1>1. /\ UNCHANGED <<secrets, main, run, posts, clock, edits, faults, lost>>
      /\ queue' = [queue EXCEPT ![c] = [pc |-> "starting", tree |-> main, behind |-> FALSE]]
  BY DEF Trigger
<1>2. [pc |-> "starting", tree |-> main, behind |-> FALSE] \in Jobs
  BY DEF IInv, RecordTypes, Jobs
<1>3. RecordTypes'
  BY <1>1, <1>2 DEF IInv, RecordTypes
<1>4. \A d \in Channels : Waits(queue[d])'
  BY <1>1 DEF IInv, RecordTypes, Waits
<1>5. \A d \in Channels : Sound(d, run[d])' /\ Balanced(d, run[d])'
  BY <1>1 DEF IInv, Sound, Knows, Scans, Balanced, Held
<1>. QED BY <1>3, <1>4, <1>5 DEF IInv

LEMMA WaitingKeeps ==
  ASSUME IInv, NEW c \in Channels, DryRun(c) \/ CheckHead(c)
  PROVE  IInv'
<1>0. /\ UNCHANGED <<main, secrets, queue, posts, clock, faults, lost>>
      /\ edits' \in 0 .. MaxEdits
  BY DEF DryRun, CheckHead, IInv, RecordTypes
<1>1. run[c].pc \in {"checked_out", "reviewed"} /\ run[c] # Idle /\ Sound(c, run[c])
  BY DEF DryRun, CheckHead, Idle, IInv
<1>2. CASE Becomes(c, Idle)
  <2>1. \A p \in Packs : Held(c, run[c], p) = 0
    BY <1>1 DEF Held, One
  <2>. QED BY <1>0, <1>2, <2>1, IdleRun, QuietStep
<1>3. CASE \E pc \in {"reviewed", "starting"} : Becomes(c, [run[c] EXCEPT !.pc = pc])
  <2>1. PICK pc \in {"reviewed", "starting"} : Becomes(c, [run[c] EXCEPT !.pc = pc])
    BY <1>3
  <2>. DEFINE r == [run[c] EXCEPT !.pc = pc]
  <2>2. /\ r = [pc |-> pc, tree |-> run[c].tree, behind |-> run[c].behind]
        /\ run[c].tree \in Trees /\ run[c].behind \in BOOLEAN
    BY <1>1, RunFields DEF Sound
  <2>3. r \in Runs(c)
    BY <2>2, WaitingRun
  <2>4. Sound(c, r) /\ \A p \in Packs : Held(c, r, p) = 0 /\ Held(c, run[c], p) = 0
    BY <1>1, <2>2, <2>3 DEF Sound, Knows, Scans, Held, One
  <2>. HIDE DEF r
  <2>. QED BY <1>0, <2>1, <2>4, QuietStep DEF r
<1>. QED BY <1>2, <1>3 DEF DryRun, CheckHead

LEMMA BeginScanKeeps ==
  ASSUME IInv, NEW c \in Channels, BeginScan(c)
  PROVE  IInv'
<1>. DEFINE todo == Eligible(run[c].tree, c, clock)
            r == [pc |-> "live", tree |-> run[c].tree, behind |-> run[c].behind,
                  todo |-> todo, part |-> 0, made |-> {}, logged |-> FALSE]
<1>1. run[c].pc = "starting" /\ run[c] # Idle /\ Sound(c, run[c])
  BY DEF BeginScan, Idle, IInv
<1>2. run[c].tree \in Trees /\ run[c].behind \in BOOLEAN
  BY <1>1, RunFields DEF Sound
<1>3. todo \subseteq Packs /\ \A p \in todo : ~run[c].tree[p][c].recorded
  BY SocialAssumption DEF Eligible
<1>4. 0 \in 0 .. Parts[c] - 1
  BY SocialAssumption
<1>. HIDE DEF todo
<1>5. r \in Runs(c)
  BY <1>2, <1>3, <1>4, LiveRun
<1>6. Knows(c, r) /\ Scans(c, r)
  BY <1>1, <1>3 DEF Sound, Knows, Scans
<1>7. \A p \in Packs : Held(c, r, p) = 0 /\ Held(c, run[c], p) = 0
  BY <1>1 DEF Sound, Knows, Held, One
<1>. HIDE DEF r
<1>8. /\ UNCHANGED <<main, secrets, queue, posts, clock, faults, lost>>
      /\ edits' \in 0 .. MaxEdits /\ Becomes(c, r)
  BY DEF BeginScan, IInv, RecordTypes, r, todo
<1>. QED BY <1>5, <1>6, <1>7, <1>8, QuietStep DEF Sound

-----------------------------------------------------------------------------
(* The posts of a run.                                                     *)

LEMMA ScanFields ==
  ASSUME IInv, NEW c \in Channels, Scanning(c)
  PROVE  /\ run[c] # Idle /\ run[c].pc = "live" /\ Sound(c, run[c])
         /\ run[c].tree \in Trees /\ run[c].behind \in BOOLEAN
         /\ run[c].todo \subseteq Packs /\ run[c].part \in 0 .. Parts[c] - 1
         /\ run[c].made \subseteq Packs /\ run[c].logged \in BOOLEAN
         /\ run[c] = [pc |-> "live", tree |-> run[c].tree, behind |-> run[c].behind,
                      todo |-> run[c].todo, part |-> run[c].part, made |-> run[c].made,
                      logged |-> run[c].logged]
         /\ Current(c) \in run[c].todo
         /\ Parts[c] \in Nat \ {0}
<1>1. run[c].pc = "live" /\ run[c].todo # {} /\ run[c] # Idle /\ Sound(c, run[c])
  BY DEF Scanning, Idle, IInv
<1>2. run[c].todo \subseteq Nat
  BY <1>1, RunFields, SocialAssumption DEF Sound
<1>3. Current(c) \in run[c].todo
  BY <1>1, <1>2, MinIn DEF Current
<1>4. Parts[c] \in Nat \ {0}
  BY SocialAssumption
<1>. QED BY <1>1, <1>3, <1>4, RunFields DEF Sound

\* One entry of a table of counts is raised by one.
LEMMA Counted ==
  ASSUME NEW table \in [Packs -> [Channels -> Nat]], NEW q \in Packs, NEW c \in Channels,
         NEW new, new = [table EXCEPT ![q][c] = @ + 1]
  PROVE  /\ new \in [Packs -> [Channels -> Nat]]
         /\ \A p \in Packs : new[p][c] = table[p][c] + One(p = q)
         /\ \A p \in Packs : \A d \in Channels \ {c} : new[p][d] = table[p][d]
BY DEF One

LEMMA ShownPosts ==
  ASSUME IInv, NEW c \in Channels, Scanning(c), Shown(c)
  PROVE  /\ posts' \in [Packs -> [Channels -> Nat]]
         /\ \A p \in Packs : posts'[p][c] = posts[p][c] + One(run[c].part = 0 /\ p = Current(c))
         /\ \A p \in Packs : \A d \in Channels \ {c} : posts'[p][d] = posts[p][d]
<1>1. Current(c) \in Packs /\ posts \in [Packs -> [Channels -> Nat]]
  BY ScanFields DEF IInv, RecordTypes
<1>2. CASE run[c].part = 0
  <2>1. posts' = [posts EXCEPT ![Current(c)][c] = @ + 1]
    BY <1>2 DEF Shown
  <2>2. /\ posts' \in [Packs -> [Channels -> Nat]]
        /\ \A p \in Packs : posts'[p][c] = posts[p][c] + One(p = Current(c))
        /\ \A p \in Packs : \A d \in Channels \ {c} : posts'[p][d] = posts[p][d]
    BY <1>1, <2>1, Counted, SMTT(90)
  <2>3. \A p \in Packs : One(run[c].part = 0 /\ p = Current(c)) = One(p = Current(c))
    BY <1>2 DEF One
  <2>. QED BY <2>2, <2>3
<1>3. CASE run[c].part # 0
  BY <1>1, <1>3 DEF Shown, One
<1>. QED BY <1>2, <1>3

\* The fields that the end of a pack changes, and those it leaves.
IsScan(r) ==
  r = [pc |-> "live", tree |-> r.tree, behind |-> r.behind, todo |-> r.todo, part |-> r.part,
       made |-> r.made, logged |-> r.logged]
PackEnded(scan, tree, made, logged, q) ==
  [scan EXCEPT !.tree = tree, !.todo = @ \ {q}, !.part = 0, !.made = made, !.logged = logged]
ScanOf(scan, tree, made, logged, q) ==
  [pc |-> "live", tree |-> tree, behind |-> scan.behind, todo |-> scan.todo \ {q}, part |-> 0,
   made |-> made, logged |-> logged]

LEMMA ScanRecord ==
  ASSUME NEW scan, NEW tree, NEW made, NEW logged, NEW q, IsScan(scan)
  PROVE  PackEnded(scan, tree, made, logged, q) = ScanOf(scan, tree, made, logged, q)
<1>. DEFINE r == PackEnded(scan, tree, made, logged, q)
<1>1. /\ r = [x \in DOMAIN r |-> r[x]]
      /\ DOMAIN r = {"pc", "tree", "behind", "todo", "part", "made", "logged"}
  BY DEF IsScan, PackEnded
<1>2. /\ r.pc = "live" /\ r.behind = scan.behind /\ r.todo = scan.todo \ {q} /\ r.part = 0
      /\ r.made = made /\ r.logged = logged /\ r.tree = tree
  BY DEF IsScan, PackEnded
<1>. HIDE DEF r
<1>3. r = ScanOf(scan, tree, made, logged, q)
  BY <1>1, <1>2 DEF ScanOf
<1>. QED BY <1>3 DEF r

\* The scan gives the pack up, or is done with it.
Ended(c, tree, made, logged) ==
  \/ tree = run[c].tree /\ made = run[c].made /\ (run[c].logged => logged)
  \/ /\ tree = [run[c].tree EXCEPT ![Current(c)][c].recorded = TRUE]
     /\ tree[Current(c)][c].recorded
     /\ made = run[c].made \cup {Current(c)} /\ logged

LEMMA NextPack ==
  ASSUME IInv, NEW c \in Channels, Scanning(c), NEW tree \in Trees, NEW made,
         NEW logged \in BOOLEAN,
         Ended(c, tree, made, logged),
         NEW r, r = ScanOf(run[c], tree, made, logged, Current(c))
  PROVE  /\ Sound(c, r)
         /\ \A p \in Packs :
              Held(c, r, p) + One(run[c].part > 0 /\ p = Current(c))
                = Held(c, run[c], p) + One(Current(c) \in made /\ p = Current(c))
<1>0. r = [pc |-> "live", tree |-> tree, behind |-> run[c].behind,
            todo |-> run[c].todo \ {Current(c)}, part |-> 0, made |-> made, logged |-> logged]
  BY DEF ScanOf
<1>00. \/ tree = run[c].tree /\ made = run[c].made /\ (run[c].logged => logged)
       \/ /\ tree = [run[c].tree EXCEPT ![Current(c)][c].recorded = TRUE]
          /\ tree[Current(c)][c].recorded
          /\ made = run[c].made \cup {Current(c)} /\ logged
  BY DEF Ended
<1>1. /\ run[c] # Idle /\ run[c].pc = "live" /\ Knows(c, run[c]) /\ Scans(c, run[c])
      /\ run[c].behind \in BOOLEAN /\ run[c].todo \subseteq Packs
      /\ run[c].part \in Nat /\ Current(c) \in run[c].todo /\ Current(c) \in Packs
      /\ run[c].tree \in Trees /\ 0 \in 0 .. Parts[c] - 1 /\ run[c].made \subseteq Packs
  <2>1. Sound(c, run[c]) /\ run[c].part \in 0 .. Parts[c] - 1 /\ Parts[c] \in Nat \ {0}
    BY ScanFields
  <2>2. Knows(c, run[c]) /\ Scans(c, run[c])
    BY <2>1 DEF Sound
  <2>3. run[c].part \in Nat /\ 0 \in 0 .. Parts[c] - 1
    BY <2>1
  <2>. QED BY <2>2, <2>3, ScanFields
<1>2. /\ ~run[c].tree[Current(c)][c].recorded /\ Current(c) \notin run[c].made
      /\ ~run[c].behind => ~main[Current(c)][c].recorded
  BY <1>1 DEF Knows, Scans
<1>3. \A p \in Packs, d \in Channels :
        /\ tree[p][d].approved = run[c].tree[p][d].approved
        /\ p # Current(c) \/ d # c => tree[p][d].recorded = run[c].tree[p][d].recorded
  <2>. SUFFICES ASSUME NEW p \in Packs, NEW d \in Channels,
                       tree = [run[c].tree EXCEPT ![Current(c)][c].recorded = TRUE]
                PROVE  /\ tree[p][d].approved = run[c].tree[p][d].approved
                       /\ p # Current(c) \/ d # c =>
                            tree[p][d].recorded = run[c].tree[p][d].recorded
    BY <1>00
  <2>1. /\ run[c].tree[p] \in [Channels -> [approved : BOOLEAN, recorded : BOOLEAN]]
        /\ run[c].tree[p][d] \in [approved : BOOLEAN, recorded : BOOLEAN]
    BY <1>1 DEF Trees
  <2>2. tree[p] = IF p = Current(c)
                    THEN [run[c].tree[p] EXCEPT ![c].recorded = TRUE] ELSE run[c].tree[p]
    BY <1>1 DEF Trees
  <2>3. CASE p # Current(c)
    BY <2>2, <2>3
  <2>4. CASE p = Current(c) /\ d # c
    <3>1. tree[p][d] = run[c].tree[p][d]
      BY <2>1, <2>2, <2>4
    <3>. QED BY <2>4, <3>1
  <2>5. CASE p = Current(c) /\ d = c
    <3>. DEFINE old == run[c].tree[p]
                new == [old[d] EXCEPT !.recorded = TRUE]
    <3>1. tree[p] = [old EXCEPT ![d] = new]
      BY <2>2, <2>5
    <3>2. new.approved = old[d].approved
      BY <2>1
    <3>. HIDE DEF new
    <3>3. tree[p][d] = new
      BY <2>1, <3>1
    <3>. QED BY <2>5, <3>2, <3>3
  <2>. QED BY <2>3, <2>4, <2>5
<1>4. /\ made = run[c].made \/ made = run[c].made \cup {Current(c)}
      /\ Current(c) \in made <=> tree[Current(c)][c].recorded
      /\ ~logged => made = {}
  BY <1>00, <1>1, <1>2 DEF Scans
<1>5. r \in Runs(c)
  BY <1>0, <1>1, <1>4, LiveRun
<1>6. Knows(c, r)
  BY <1>0, <1>1, <1>2, <1>3, <1>4 DEF Knows
<1>7. Scans(c, r)
  BY <1>0, <1>1, <1>3, <1>4 DEF Scans
<1>8. ASSUME NEW p \in Packs
      PROVE  Held(c, r, p) + One(run[c].part > 0 /\ p = Current(c))
               = Held(c, run[c], p) + One(Current(c) \in made /\ p = Current(c))
  <2>1. Held(c, r, p) = One(p \in made)
    BY <1>0 DEF Held, One
  <2>2. Held(c, run[c], p) = One(p \in run[c].made)
                             + One(run[c].part > 0 /\ p = Current(c))
    BY <1>1 DEF Held, One, Current
  <2>3. CASE p = Current(c)
    BY <1>2, <2>1, <2>2, <2>3 DEF One
  <2>4. CASE p # Current(c)
    BY <1>4, <2>1, <2>2, <2>4 DEF One
  <2>. QED BY <2>3, <2>4
<1>. QED BY <1>5, <1>6, <1>7, <1>8 DEF Sound

\* What a post adds on the platform, the run holds.
LEMMA AddedPost ==
  ASSUME NEW old, NEW new, NEW m \in Nat, NEW held \in Nat, NEW gone \in Nat,
         NEW more, NEW first \in Nat,
         old = m + held + gone, new = old + first, more = held + first
  PROVE  new = m + more + gone
OBVIOUS

LEMMA PostPartKeeps ==
  ASSUME IInv, NEW c \in Channels, PostPart(c)
  PROVE  IInv'
<1>. DEFINE q == Current(c)
<1>1. /\ Scanning(c) /\ Shown(c)
      /\ UNCHANGED <<secrets, main, queue, clock, edits, faults, lost>>
      /\ run[c].part + 1 < Parts[c] => Becomes(c, [run[c] EXCEPT !.part = @ + 1])
      /\ ~(run[c].part + 1 < Parts[c]) =>
           Becomes(c, [run[c] EXCEPT !.tree[q][c].recorded = TRUE, !.todo = @ \ {q},
                                     !.part = 0, !.made = @ \cup {q}, !.logged = TRUE])
  BY DEF PostPart
<1>2. /\ run[c].pc = "live" /\ Sound(c, run[c]) /\ Balanced(c, run[c])
      /\ run[c].tree \in Trees /\ run[c].behind \in BOOLEAN
      /\ run[c].todo \subseteq Packs /\ run[c].part \in 0 .. Parts[c] - 1
      /\ run[c].made \subseteq Packs /\ run[c].logged \in BOOLEAN
      /\ run[c] = [pc |-> "live", tree |-> run[c].tree, behind |-> run[c].behind,
                   todo |-> run[c].todo, part |-> run[c].part, made |-> run[c].made,
                   logged |-> run[c].logged]
      /\ q \in run[c].todo /\ q \in Packs /\ Parts[c] \in Nat \ {0}
  BY <1>1, ScanFields DEF IInv
<1>3. /\ posts' \in [Packs -> [Channels -> Nat]]
      /\ \A p \in Packs : posts'[p][c] = posts[p][c] + One(run[c].part = 0 /\ p = q)
      /\ \A p \in Packs : \A d \in Channels \ {c} : posts'[p][d] = posts[p][d]
  BY <1>1, ShownPosts
<1>4. RecordTypes'
  BY <1>1, <1>3 DEF IInv, RecordTypes, Becomes
<1>5. \A p \in Packs : posts[p][c] = One(main[p][c].recorded) + Held(c, run[c], p) + lost[p][c]
  BY <1>2 DEF Balanced
<1>6. \A p \in Packs : Held(c, run[c], p) \in Nat /\ lost[p][c] \in Nat
  BY DEF Held, One, IInv, RecordTypes
<1>7. CASE run[c].part + 1 < Parts[c]
  <2>. DEFINE r == [pc |-> "live", tree |-> run[c].tree, behind |-> run[c].behind,
                    todo |-> run[c].todo, part |-> run[c].part + 1,
                    made |-> run[c].made, logged |-> run[c].logged]
  <2>1. Becomes(c, r)
    BY <1>1, <1>2, <1>7
  <2>2. r \in Runs(c)
    <3>1. run[c].part + 1 \in 0 .. Parts[c] - 1
      BY <1>2, <1>7
    <3>. QED BY <1>2, <3>1, LiveRun
  <2>3. Sound(c, r)
    BY <1>2, <2>2 DEF Sound, Knows, Scans, Idle
  <2>4. \A p \in Packs :
          Held(c, r, p) = Held(c, run[c], p) + One(run[c].part = 0 /\ p = q)
    BY <1>2 DEF Held, One, Current
  <2>. HIDE DEF r
  <2>5. \A p \in Packs : posts'[p][c] = One(main[p][c].recorded) + Held(c, r, p) + lost'[p][c]
    <3>. SUFFICES ASSUME NEW p \in Packs
                  PROVE  posts'[p][c]
                           = One(main[p][c].recorded) + Held(c, r, p) + lost'[p][c]
      OBVIOUS
    <3>. DEFINE m == One(main[p][c].recorded)
                first == One(run[c].part = 0 /\ p = q)
    <3>1. m \in Nat /\ first \in Nat
      BY DEF One
    <3>2. posts'[p][c] = posts[p][c] + first /\ lost' = lost
      BY <1>1, <1>3
    <3>3. posts[p][c] = m + Held(c, run[c], p) + lost[p][c]
      BY <1>5
    <3>4. Held(c, r, p) = Held(c, run[c], p) + first
      BY <2>4
    <3>5. Held(c, run[c], p) \in Nat /\ lost[p][c] \in Nat
      BY <1>6
    <3>6. posts'[p][c] = m + Held(c, r, p) + lost[p][c]
      <4>. HIDE DEF m, first
      <4>. QED BY <3>1, <3>2, <3>3, <3>4, <3>5, AddedPost
    <3>. QED BY <3>2, <3>6
  <2>. QED BY <1>1, <1>3, <1>4, <2>1, <2>3, <2>5, OwnStep
<1>8. CASE ~(run[c].part + 1 < Parts[c])
  <2>. DEFINE tree == [run[c].tree EXCEPT ![q][c].recorded = TRUE]
              r == [pc |-> "live", tree |-> tree, behind |-> run[c].behind,
                    todo |-> run[c].todo \ {q}, part |-> 0, made |-> run[c].made \cup {q},
                    logged |-> TRUE]
  <2>1. Becomes(c, r)
    <3>. HIDE DEF q
    <3>. DEFINE next == [run[c] EXCEPT !.tree = tree, !.todo = @ \ {q}, !.part = 0,
                                       !.made = run[c].made \cup {q}, !.logged = TRUE]
    <3>1. Becomes(c, next)
      BY <1>1, <1>8
    <3>. HIDE DEF tree, next
    <3>2. next = r
      <4>1. IsScan(run[c])
        BY <1>2 DEF IsScan
      <4>2. next = PackEnded(run[c], tree, run[c].made \cup {q}, TRUE, q)
        BY DEF PackEnded, next
      <4>3. PackEnded(run[c], tree, run[c].made \cup {q}, TRUE, q)
              = ScanOf(run[c], tree, run[c].made \cup {q}, TRUE, q)
        BY <4>1, ScanRecord
      <4>. QED BY <4>2, <4>3 DEF ScanOf
    <3>. QED BY <3>1, <3>2
  <2>2. tree \in Trees /\ tree[q][c].recorded
    <3>. HIDE DEF q
    <3>1. tree \in Trees
      <4>. DEFINE old == run[c].tree[q][c]
                  new == [old EXCEPT !.recorded = TRUE]
                  column == [run[c].tree[q] EXCEPT ![c] = new]
      <4>1. old \in [approved : BOOLEAN, recorded : BOOLEAN]
        BY <1>2 DEF Trees
      <4>2. new \in [approved : BOOLEAN, recorded : BOOLEAN]
        BY <4>1
      <4>3. column \in [Channels -> [approved : BOOLEAN, recorded : BOOLEAN]]
        <5>. HIDE DEF new
        <5>. QED BY <1>2, <4>2 DEF Trees
      <4>4. tree = [run[c].tree EXCEPT ![q] = column]
        OBVIOUS
      <4>. HIDE DEF column, tree
      <4>. QED BY <1>2, <4>3, <4>4 DEF Trees
    <3>2. tree[q][c].recorded
      <4>. DEFINE old == run[c].tree
                  new == [old[q][c] EXCEPT !.recorded = TRUE]
      <4>1. old[q] \in [Channels -> [approved : BOOLEAN, recorded : BOOLEAN]]
        BY <1>2 DEF Trees
      <4>2. tree[q] = [old[q] EXCEPT ![c] = new]
        BY <1>2 DEF Trees
      <4>3. new.recorded
        BY <4>1
      <4>. HIDE DEF new, tree
      <4>. QED BY <4>1, <4>2, <4>3
    <3>. QED BY <3>1, <3>2
  <2>. HIDE DEF q
  <2>3. /\ Sound(c, r)
        /\ \A p \in Packs :
             Held(c, r, p) + One(run[c].part > 0 /\ p = Current(c))
               = Held(c, run[c], p)
                 + One(Current(c) \in run[c].made \cup {q} /\ p = Current(c))
    <3>. DEFINE made == run[c].made \cup {q}
                logged == TRUE
    <3>1. /\ tree = [run[c].tree EXCEPT ![Current(c)][c].recorded = TRUE]
          /\ tree[Current(c)][c].recorded /\ tree \in Trees
          /\ made = run[c].made \cup {Current(c)}
      BY <2>2 DEF q
    <3>2. r = [pc |-> "live", tree |-> tree, behind |-> run[c].behind,
               todo |-> run[c].todo \ {Current(c)}, part |-> 0, made |-> made,
               logged |-> TRUE]
      BY DEF q
    <3>6. tree \in Trees /\ Scanning(c) /\ logged \in BOOLEAN
      BY <1>1, <2>2
    <3>4. Ended(c, tree, made, logged)
      BY <3>1 DEF Ended
    <3>5. r = ScanOf(run[c], tree, made, logged, Current(c))
      BY <3>2 DEF ScanOf
    <3>. HIDE DEF tree, r, made, logged
    <3>3. /\ Sound(c, r)
          /\ \A p \in Packs :
               Held(c, r, p) + One(run[c].part > 0 /\ p = Current(c))
                 = Held(c, run[c], p) + One(Current(c) \in made /\ p = Current(c))
      BY <3>6, <3>4, <3>5, NextPack
    <3>. QED BY <3>3 DEF made
  <2>. HIDE DEF tree, r
  <2>4. \A p \in Packs : Held(c, r, p) \in Nat
    BY DEF Held, One
  <2>5. \A p \in Packs :
          Held(c, r, p) = Held(c, run[c], p) + One(run[c].part = 0 /\ p = q)
    BY <1>2, <1>6, <2>3, <2>4 DEF One, q
  <2>6. \A p \in Packs : posts'[p][c] = One(main[p][c].recorded) + Held(c, r, p) + lost'[p][c]
    <3>. SUFFICES ASSUME NEW p \in Packs
                  PROVE  posts'[p][c]
                           = One(main[p][c].recorded) + Held(c, r, p) + lost'[p][c]
      OBVIOUS
    <3>. DEFINE m == One(main[p][c].recorded)
                first == One(run[c].part = 0 /\ p = q)
    <3>1. m \in Nat /\ first \in Nat
      BY DEF One
    <3>2. posts'[p][c] = posts[p][c] + first /\ lost' = lost
      BY <1>1, <1>3
    <3>3. posts[p][c] = m + Held(c, run[c], p) + lost[p][c]
      BY <1>5
    <3>4. Held(c, r, p) = Held(c, run[c], p) + first
      BY <2>5
    <3>5. Held(c, run[c], p) \in Nat /\ lost[p][c] \in Nat
      BY <1>6
    <3>6. posts'[p][c] = m + Held(c, r, p) + lost[p][c]
      <4>. HIDE DEF m, first
      <4>. QED BY <3>1, <3>2, <3>3, <3>4, <3>5, AddedPost
    <3>. QED BY <3>2, <3>6
  <2>. QED BY <1>1, <1>3, <1>4, <2>1, <2>3, <2>6, OwnStep
<1>. QED BY <1>7, <1>8

LEMMA FaultyPostKeeps ==
  ASSUME IInv, NEW c \in Channels, PostRefused(c) \/ AnswerLost(c)
  PROVE  IInv'
<1>1. /\ Scanning(c) /\ GiveUp(c) /\ faults' \in 0 .. MaxFaults
      /\ UNCHANGED <<secrets, main, queue, clock, edits>>
  BY SocialAssumption DEF PostRefused, AnswerLost, Fault, IInv, RecordTypes
<1>0. PICK seen \in {TRUE, run[c].logged} :
        Becomes(c, [run[c] EXCEPT !.todo = @ \ {Current(c)}, !.part = 0, !.logged = seen])
  BY <1>1 DEF GiveUp
<1>. DEFINE q == Current(c)
            r == [pc |-> "live", tree |-> run[c].tree, behind |-> run[c].behind,
                  todo |-> run[c].todo \ {q}, part |-> 0, made |-> run[c].made,
                  logged |-> seen]
<1>2. /\ run[c].pc = "live" /\ Balanced(c, run[c])
      /\ run[c].tree \in Trees /\ run[c].part \in Nat /\ q \in Packs
      /\ seen \in BOOLEAN /\ (run[c].logged => seen) /\ Current(c) \notin run[c].made
      /\ run[c] = [pc |-> "live", tree |-> run[c].tree, behind |-> run[c].behind,
                   todo |-> run[c].todo, part |-> run[c].part, made |-> run[c].made,
                   logged |-> run[c].logged]
  <2>1. Current(c) \in run[c].todo /\ Scans(c, run[c])
    BY <1>1, ScanFields DEF Sound
  <2>2. run[c].pc = "live" /\ run[c].logged \in BOOLEAN /\ run[c].part \in Nat
    <3>1. /\ run[c].pc = "live" /\ run[c].logged \in BOOLEAN
          /\ run[c].part \in 0 .. Parts[c] - 1 /\ Parts[c] \in Nat \ {0}
      BY <1>1, ScanFields
    <3>. QED BY <3>1
  <2>3. Current(c) \notin run[c].made
    BY <2>1, <2>2 DEF Scans
  <2>4. seen \in BOOLEAN /\ (run[c].logged => seen)
    BY <1>0, <2>2
  <2>. QED BY <1>1, <2>2, <2>3, <2>4, ScanFields DEF IInv
<1>3. Becomes(c, r)
  <2>. HIDE DEF q
  <2>. DEFINE next == [run[c] EXCEPT !.tree = run[c].tree, !.todo = @ \ {q}, !.part = 0,
                                     !.made = run[c].made, !.logged = seen]
  <2>1. next = [run[c] EXCEPT !.todo = @ \ {q}, !.part = 0, !.logged = seen]
    BY <1>2
  <2>2. next = r
    <3>1. IsScan(run[c])
      BY <1>2 DEF IsScan
    <3>2. next = PackEnded(run[c], run[c].tree, run[c].made, seen, q)
      BY DEF PackEnded
    <3>. HIDE DEF next
    <3>3. PackEnded(run[c], run[c].tree, run[c].made, seen, q)
            = ScanOf(run[c], run[c].tree, run[c].made, seen, q)
      BY <3>1, ScanRecord
    <3>. QED BY <3>2, <3>3 DEF ScanOf
  <2>. QED BY <1>0, <2>1, <2>2 DEF q
<1>4. /\ Sound(c, r)
      /\ \A p \in Packs : Held(c, r, p) + One(run[c].part > 0 /\ p = q) = Held(c, run[c], p)
  <2>1. /\ Sound(c, r)
        /\ \A p \in Packs : Held(c, r, p) + One(run[c].part > 0 /\ p = Current(c))
                            = Held(c, run[c], p)
                              + One(Current(c) \in run[c].made /\ p = Current(c))
    <3>1. Ended(c, run[c].tree, run[c].made, seen)
      BY <1>2 DEF Ended
    <3>2. r = ScanOf(run[c], run[c].tree, run[c].made, seen, Current(c))
      BY DEF ScanOf
    <3>. HIDE DEF r
    <3>. QED BY <1>1, <1>2, <3>1, <3>2, NextPack
  <2>2. \A p \in Packs : Held(c, run[c], p) \in Nat
    BY DEF Held, One
  <2>. HIDE DEF r
  <2>. QED BY <1>2, <2>1, <2>2 DEF One
<1>. HIDE DEF r, q
<1>5. \A p \in Packs :
        /\ posts[p][c] = One(main[p][c].recorded) + Held(c, run[c], p) + lost[p][c]
        /\ Held(c, r, p) \in Nat /\ lost[p][c] \in Nat
  BY <1>2 DEF Balanced, Held, One, IInv, RecordTypes
<1>6. CASE PostRefused(c)
  <2>1. /\ posts' = posts /\ lost' \in [Packs -> [Channels -> Nat]]
        /\ \A p \in Packs : lost'[p][c] = lost[p][c] + One(run[c].part > 0 /\ p = q)
        /\ \A p \in Packs : \A d \in Channels \ {c} : lost'[p][d] = lost[p][d]
    <3>1. CASE run[c].part > 0
      <4>1. lost' = [lost EXCEPT ![q][c] = @ + 1] /\ lost \in [Packs -> [Channels -> Nat]]
        BY <1>6, <3>1 DEF PostRefused, q, IInv, RecordTypes
      <4>2. q \in Packs /\ posts' = posts
        BY <1>2, <1>6 DEF PostRefused
      <4>3. /\ lost' \in [Packs -> [Channels -> Nat]]
            /\ \A p \in Packs : lost'[p][c] = lost[p][c] + One(p = q)
            /\ \A p \in Packs : \A d \in Channels \ {c} : lost'[p][d] = lost[p][d]
        BY <4>1, <4>2, Counted, SMTT(30)
      <4>. QED BY <3>1, <4>2, <4>3 DEF One
    <3>2. CASE ~(run[c].part > 0)
      BY <1>6, <3>2 DEF PostRefused, One, IInv, RecordTypes
    <3>. QED BY <3>1, <3>2
  <2>2. RecordTypes'
    BY <1>1, <2>1 DEF IInv, RecordTypes, GiveUp, Becomes
  <2>3. \A p \in Packs : posts'[p][c] = One(main[p][c].recorded) + Held(c, r, p) + lost'[p][c]
    BY <1>4, <1>5, <2>1 DEF One
  <2>. QED BY <1>1, <1>3, <1>4, <2>1, <2>2, <2>3, OwnStep
<1>7. CASE AnswerLost(c)
  <2>1. /\ posts' \in [Packs -> [Channels -> Nat]]
        /\ \A p \in Packs : posts'[p][c] = posts[p][c] + One(run[c].part = 0 /\ p = q)
        /\ \A p \in Packs : \A d \in Channels \ {c} : posts'[p][d] = posts[p][d]
    BY <1>1, <1>7, ShownPosts DEF AnswerLost, q
  <2>2. /\ lost' \in [Packs -> [Channels -> Nat]]
        /\ \A p \in Packs : lost'[p][c] = lost[p][c] + One(p = q)
        /\ \A p \in Packs : \A d \in Channels \ {c} : lost'[p][d] = lost[p][d]
    <3>1. lost' = [lost EXCEPT ![q][c] = @ + 1] /\ lost \in [Packs -> [Channels -> Nat]]
      BY <1>7 DEF AnswerLost, q, IInv, RecordTypes
    <3>2. q \in Packs
      BY <1>2
    <3>. QED BY <3>1, <3>2, Counted, SMTT(90)
  <2>3. RecordTypes'
    BY <1>1, <2>1, <2>2 DEF IInv, RecordTypes, GiveUp, Becomes
  <2>4. \A p \in Packs : posts'[p][c] = One(main[p][c].recorded) + Held(c, r, p) + lost'[p][c]
    <3>1. run[c].part \in Nat
      BY <1>2
    <3>. SUFFICES ASSUME NEW p \in Packs
                  PROVE  posts'[p][c]
                           = One(main[p][c].recorded) + Held(c, r, p) + lost'[p][c]
      OBVIOUS
    <3>. DEFINE m == One(main[p][c].recorded)
                first == One(run[c].part = 0 /\ p = q)
                later == One(run[c].part > 0 /\ p = q)
                all == One(p = q)
    <3>2. /\ posts[p][c] = m + Held(c, run[c], p) + lost[p][c]
          /\ Held(c, r, p) \in Nat /\ lost[p][c] \in Nat
          /\ Held(c, r, p) + later = Held(c, run[c], p)
      BY <1>4, <1>5
    <3>3. posts'[p][c] = posts[p][c] + first /\ lost'[p][c] = lost[p][c] + all
      BY <2>1, <2>2
    <3>4. m \in Nat /\ first \in Nat /\ later \in Nat /\ all = first + later
      BY <3>1 DEF One
    <3>5. posts'[p][c] = m + Held(c, r, p) + lost'[p][c]
      <4>. HIDE DEF m, first, later, all
      <4>. QED BY <3>2, <3>3, <3>4
    <3>. QED BY <3>5
  <2>. QED BY <1>1, <1>3, <1>4, <2>1, <2>2, <2>3, <2>4, OwnStep
<1>. QED BY <1>6, <1>7

-----------------------------------------------------------------------------
(* The end of a run, and the editors.                                      *)

LEMMA ForgottenPosts ==
  ASSUME IInv, NEW c \in Channels, Forgotten(c)
  PROVE  /\ lost' \in [Packs -> [Channels -> Nat]]
         /\ \A p \in Packs : lost'[p][c] = lost[p][c] + Held(c, run[c], p)
         /\ \A p \in Packs : \A d \in Channels \ {c} : lost'[p][d] = lost[p][d]
<1>1. lost \in [Packs -> [Channels -> Nat]]
  BY DEF IInv, RecordTypes
<1>2. \A p \in Packs : ~(Fresh(c, p) /\ Partial(c, p))
  <2>. SUFFICES ASSUME NEW p \in Packs, Fresh(c, p), Partial(c, p) PROVE FALSE
    OBVIOUS
  <2>1. Scanning(c) /\ Current(c) = p /\ p \in run[c].made
    BY DEF Fresh, Partial
  <2>. QED BY <2>1, ScanFields DEF Sound, Scans
<1>3. \A p \in Packs : Held(c, run[c], p) = One(Fresh(c, p) \/ Partial(c, p))
  BY <1>2, HeldIs DEF One
<1>4. \A p \in Packs : lost'[p] = [lost[p] EXCEPT ![c] = @ + One(Fresh(c, p) \/ Partial(c, p))]
  <2>. SUFFICES ASSUME NEW p \in Packs
                PROVE  lost'[p] = [lost[p] EXCEPT
                                     ![c] = @ + One(Fresh(c, p) \/ Partial(c, p))]
    OBVIOUS
  <2>1. lost[p][c] \in Nat
    BY <1>1
  <2>2. lost'[p] = [lost[p] EXCEPT ![c] = IF Fresh(c, p) \/ Partial(c, p)
                                           THEN lost[p][c] + 1 ELSE lost[p][c]]
    BY DEF Forgotten
  <2>3. CASE Fresh(c, p) \/ Partial(c, p)
    BY <2>2, <2>3 DEF One
  <2>4. CASE ~(Fresh(c, p) \/ Partial(c, p))
    BY <2>1, <2>2, <2>4 DEF One
  <2>. QED BY <2>3, <2>4
<1>5. \A p \in Packs : One(Fresh(c, p) \/ Partial(c, p)) \in Nat
  BY DEF One
<1>6. lost' = [p \in Packs |-> lost'[p]]
  BY DEF Forgotten
<1>. QED BY <1>1, <1>3, <1>4, <1>5, <1>6

\* A run that is gone without a push: what it knew of is lost.
LEMMA LostRun ==
  ASSUME IInv, NEW c \in Channels, Becomes(c, Idle), Forgotten(c),
         UNCHANGED <<main, secrets, queue, posts, clock, edits>>, faults' \in 0 .. MaxFaults
  PROVE  IInv'
<1>1. /\ lost' \in [Packs -> [Channels -> Nat]]
      /\ \A p \in Packs : lost'[p][c] = lost[p][c] + Held(c, run[c], p)
      /\ \A p \in Packs : \A d \in Channels \ {c} : lost'[p][d] = lost[p][d]
  BY ForgottenPosts
<1>2. RecordTypes'
  BY <1>1 DEF IInv, RecordTypes, Becomes
<1>3. ASSUME NEW p \in Packs
      PROVE  posts'[p][c] = One(main[p][c].recorded) + Held(c, Idle, p) + lost'[p][c]
  <2>. DEFINE m == One(main[p][c].recorded)
  <2>1. posts[p][c] = m + Held(c, run[c], p) + lost[p][c] /\ Held(c, Idle, p) = 0
    BY IdleRun DEF IInv, Balanced
  <2>2. m \in Nat /\ Held(c, run[c], p) \in Nat /\ lost[p][c] \in Nat
    BY DEF One, Held, IInv, RecordTypes
  <2>. HIDE DEF m
  <2>3. posts'[p][c] = m + Held(c, Idle, p) + lost'[p][c]
    BY <1>1, <2>1, <2>2
  <2>. QED BY <2>3 DEF m
<1>. QED BY <1>1, <1>2, <1>3, IdleRun, OwnStep

\* Somebody else has pushed: the checkout falls behind, and so does the job that waits.
LEMMA FallsBehind ==
  ASSUME IInv, NEW d \in Channels, run'[d] = Behind(run[d]),
         \A p \in Packs : main'[p][d].recorded = main[p][d].recorded,
         UNCHANGED <<posts, lost>>
  PROVE  Sound(d, run[d])' /\ Balanced(d, run[d])'
<1>1. Sound(d, run[d]) /\ Balanced(d, run[d])
  BY DEF IInv
<1>2. CASE run[d] = Idle
  <2>1. run'[d] = Idle
    BY <1>2 DEF Behind
  <2>. QED BY <1>1, <1>2, <2>1 DEF Sound, Runs, Jobs, Trees, Knows, Scans, Idle, Balanced, Held, One
<1>3. CASE run[d] # Idle
  <2>. DEFINE r == [run[d] EXCEPT !.behind = TRUE]
  <2>1. run'[d] = r
    BY <1>3 DEF Behind
  <2>2. r \in Runs(d)
    BY <1>1, <1>3 DEF Sound, Runs, Jobs
  <2>3. /\ r.pc = run[d].pc /\ r.tree = run[d].tree /\ r.behind = TRUE
        /\ run[d].pc = "live" =>
             /\ r.todo = run[d].todo /\ r.part = run[d].part
             /\ r.made = run[d].made /\ r.logged = run[d].logged
    BY <1>1, <1>3, RunFields DEF Sound
  <2>. HIDE DEF r
  <2>4. Knows(d, run[d])'
    BY <1>1, <1>3, <2>1, <2>3 DEF Sound, Knows
  <2>5. Scans(d, run[d])'
    BY <1>1, <2>1, <2>3 DEF Sound, Scans
  <2>6. \A p \in Packs : Held(d, run[d], p)' = Held(d, run[d], p)
    BY <2>1, <2>3 DEF Held, One
  <2>7. (run[d] \in Runs(d))'
    BY <2>1, <2>2 DEF Runs, Jobs, Trees
  <2>8. \A p \in Packs : One(main[p][d].recorded)' = One(main[p][d].recorded)
    OBVIOUS
  <2>9. Balanced(d, run[d])'
    BY <1>1, <2>6, <2>8 DEF Balanced
  <2>. QED BY <2>4, <2>5, <2>7, <2>9 DEF Sound
<1>. QED BY <1>2, <1>3

LEMMA QueueFallsBehind ==
  ASSUME IInv, queue' = [d \in Channels |-> Behind(queue[d])]
  PROVE  queue' \in [Channels -> Jobs] /\ \A d \in Channels : Waits(queue[d])'
<1>1. queue \in [Channels -> Jobs]
  BY DEF IInv, RecordTypes
<1>2. ASSUME NEW d \in Channels PROVE queue'[d] \in Jobs /\ Waits(queue[d])'
  <2>1. CASE queue[d] = Idle
    BY <2>1 DEF Behind, Jobs, Waits
  <2>2. CASE queue[d] # Idle
    <3>1. queue[d] \in [pc : {"starting"}, tree : Trees, behind : BOOLEAN]
      BY <1>1, <2>2 DEF Jobs
    <3>2. queue'[d] = [queue[d] EXCEPT !.behind = TRUE]
      BY <2>2 DEF Behind
    <3>. QED BY <3>1, <3>2 DEF Jobs, Waits
  <2>. QED BY <2>1, <2>2
<1>3. queue' \in [Channels -> Jobs]
  BY <1>2
<1>. QED BY <1>2, <1>3

LEMMA EditKeeps ==
  ASSUME IInv, NEW q \in Packs, NEW c \in Channels, Edit(q, c)
  PROVE  IInv'
<1>1. /\ main' = [main EXCEPT ![q][c].approved = ~@] /\ main \in Trees
      /\ queue' = [d \in Channels |-> Behind(queue[d])]
      /\ run' = [d \in Channels |-> Behind(run[d])] /\ edits' \in 0 .. MaxEdits
      /\ UNCHANGED <<secrets, posts, clock, faults, lost>>
  BY SocialAssumption DEF Edit, IInv, RecordTypes
<1>2. main' \in Trees /\ \A p \in Packs, d \in Channels :
        main'[p][d].recorded = main[p][d].recorded
  <2>. DEFINE old == main[q][c]
              new == [old EXCEPT !.approved = ~@]
              column == [main[q] EXCEPT ![c] = new]
  <2>1. old \in [approved : BOOLEAN, recorded : BOOLEAN]
    BY <1>1 DEF Trees
  <2>2. new \in [approved : BOOLEAN, recorded : BOOLEAN] /\ new.recorded = old.recorded
    BY <2>1
  <2>3. main' = [main EXCEPT ![q] = column]
    BY <1>1
  <2>. HIDE DEF new
  <2>4. /\ column \in [Channels -> [approved : BOOLEAN, recorded : BOOLEAN]]
        /\ \A d \in Channels : column[d].recorded = main[q][d].recorded
    BY <1>1, <2>2 DEF Trees
  <2>. HIDE DEF column
  <2>. QED BY <1>1, <2>3, <2>4 DEF Trees
<1>5. queue' \in [Channels -> Jobs] /\ \A d \in Channels : Waits(queue[d])'
  BY <1>1, QueueFallsBehind
<1>3. RecordTypes'
  BY <1>1, <1>2, <1>5 DEF IInv, RecordTypes
<1>4. \A d \in Channels : Sound(d, run[d])' /\ Balanced(d, run[d])'
  BY <1>1, <1>2, FallsBehind
<1>. QED BY <1>3, <1>4, <1>5 DEF IInv

LEMMA PublishedKeeps ==
  ASSUME IInv, NEW c \in Channels, Done(c), ~run[c].behind, Published(c),
         UNCHANGED <<secrets, posts, clock, edits, faults, lost>>
  PROVE  IInv'
<1>1. /\ run[c].pc = "live" /\ run[c].todo = {} /\ run[c] # Idle
      /\ Sound(c, run[c]) /\ Balanced(c, run[c])
  BY DEF Done, Idle, IInv
<1>2. main' = run[c].tree /\ main' \in Trees
  BY <1>1, RunFields DEF Published, Sound
<1>3. \A p \in Packs, d \in Channels : d # c => main'[p][d].recorded = main[p][d].recorded
  BY <1>1, <1>2 DEF Sound, Knows
<1>4. run' = [d \in Channels |-> IF d = c THEN Idle ELSE Behind(run[d])]
  BY DEF Published
<1>9. queue' \in [Channels -> Jobs] /\ \A d \in Channels : Waits(queue[d])'
  BY QueueFallsBehind DEF Published
<1>5. RecordTypes'
  BY <1>2, <1>4, <1>9 DEF IInv, RecordTypes
<1>6. ASSUME NEW d \in Channels, d # c PROVE Sound(d, run[d])' /\ Balanced(d, run[d])'
  BY <1>3, <1>4, <1>6, FallsBehind
<1>7. Sound(c, run[c])'
  BY <1>4 DEF Sound, Runs, Jobs, Knows, Scans, Idle
<1>8. Balanced(c, run[c])'
  <2>. SUFFICES ASSUME NEW p \in Packs
                PROVE  (posts[p][c] = One(main[p][c].recorded) + Held(c, run[c], p) + lost[p][c])'
    BY DEF Balanced
  <2>1. posts[p][c] = One(main[p][c].recorded) + Held(c, run[c], p) + lost[p][c]
    BY <1>1 DEF Balanced
  <2>2. One(main[p][c].recorded) + Held(c, run[c], p) = One(run[c].tree[p][c].recorded)
    BY <1>1 DEF Held, One, Sound, Knows, Scans
  <2>3. Held(c, run[c], p)' = 0
    BY <1>4 DEF Held, One, Idle
  <2>4. One(run[c].tree[p][c].recorded) \in Nat /\ lost[p][c] \in Nat
    BY DEF One, IInv, RecordTypes
  <2>5. One(main[p][c].recorded)' = One(run[c].tree[p][c].recorded)
    BY <1>2
  <2>. QED BY <2>1, <2>2, <2>3, <2>4, <2>5
<1>. QED BY <1>5, <1>6, <1>7, <1>8, <1>9 DEF IInv

LEMMA EndingKeeps ==
  ASSUME IInv, NEW c \in Channels, Push(c) \/ Kill(c)
  PROVE  IInv'
<1>1. faults \in 0 .. MaxFaults
  BY DEF IInv, RecordTypes
<1>2. CASE Kill(c)
  BY <1>1, <1>2, SocialAssumption, LostRun DEF Kill, Fault
<1>3. CASE Push(c) /\ Changed(c) /\ run[c].behind
  <2>1. Forgotten(c) /\ Becomes(c, Idle) /\ UNCHANGED <<main, queue>>
    BY <1>3 DEF Push
  <2>. QED BY <1>1, <1>3, <2>1, LostRun DEF Push
<1>4. CASE Push(c) /\ Changed(c) /\ ~run[c].behind
  BY <1>4, PublishedKeeps DEF Push
<1>5. CASE Push(c) /\ ~Changed(c)
  <2>1. /\ Done(c) /\ Becomes(c, Idle) /\ UNCHANGED <<main, queue, lost>>
        /\ ~run[c].logged /\ edits' \in 0 .. MaxEdits
    BY <1>5 DEF Push, Changed, IInv, RecordTypes
  <2>2. Scans(c, run[c])
    BY DEF IInv, Sound
  <2>3. \A p \in Packs : Held(c, run[c], p) = 0
    BY <2>1, <2>2 DEF Done, Scans, Held, One
  <2>. QED BY <1>5, <2>1, <2>3, IdleRun, QuietStep DEF Push
<1>. QED BY <1>2, <1>3, <1>4, <1>5

-----------------------------------------------------------------------------
(* Theorems.                                                               *)

LEMMA InitOK == Init => IInv
<1>. SUFFICES ASSUME Init PROVE IInv
  OBVIOUS
<1>1. main \in Trees /\ \A p \in Packs, c \in Channels : ~main[p][c].recorded
  BY DEF Init, Trees
<1>2. RecordTypes
  BY <1>1, SocialAssumption DEF Init, RecordTypes, Nowhere, Jobs
<1>3. ASSUME NEW c \in Channels
      PROVE  Sound(c, run[c]) /\ Balanced(c, run[c]) /\ Waits(queue[c])
  <2>1. run[c] = Idle /\ queue[c] = Idle
    BY DEF Init
  <2>2. Sound(c, run[c]) /\ \A p \in Packs : Held(c, run[c], p) = 0
    BY <2>1, IdleRun
  <2>. QED BY <1>1, <2>1, <2>2 DEF Init, Balanced, Waits, Nowhere, One
<1>. QED BY <1>2, <1>3 DEF IInv

LEMMA NextOK == IInv /\ [Next]_vars => IInv'
<1>. SUFFICES ASSUME IInv, [Next]_vars PROVE IInv'
  OBVIOUS
<1>1. ASSUME NEW c \in Channels, Advance(c) PROVE IInv'
  BY <1>1, CheckoutKeeps, WaitingKeeps, BeginScanKeeps, PostPartKeeps, EndingKeeps DEF Advance
<1>2. ASSUME UNCHANGED <<secrets, main, queue, run, posts, edits, faults, lost>>,
             clock' \in 0 .. MaxClock
      PROVE  IInv'
  <2>1. RecordTypes'
    BY <1>2 DEF IInv, RecordTypes
  <2>2. \A c \in Channels : Sound(c, run[c])' /\ Balanced(c, run[c])' /\ Waits(queue[c])'
    BY <1>2 DEF IInv, Sound, Knows, Scans, Balanced, Held, Waits
  <2>. QED BY <2>1, <2>2 DEF IInv
<1>3. CASE Tick
  BY <1>2, <1>3, SocialAssumption DEF Tick, IInv, RecordTypes
<1>4. CASE UNCHANGED vars
  BY <1>2, <1>4 DEF vars, IInv, RecordTypes
<1>. QED BY <1>1, <1>3, <1>4, EditKeeps, TriggerKeeps, CheckoutKeeps, FaultyPostKeeps, EndingKeeps
     DEF Next

\* Branch, checkouts and scans keep their types (save_yaml, publish_one).
THEOREM TypeInvariant == Spec => []TypeOK
<1>1. IInv => TypeOK
  BY DEF IInv, RecordTypes, Sound, TypeOK
<1>. QED BY <1>1, InitOK, NextOK, PTL DEF Spec

\* A post is recorded on main, known to the run that made it, or its record was lost to a
\* fault or a rejected push; a pack that main has as published is posted again only by a run
\* that has fallen behind main (should_publish, checkout without a ref, the commit step).
THEOREM PostsAreAccounted == Spec => []PostsAccounted
<1>1. IInv => PostsAccounted
  <2>. SUFFICES ASSUME IInv, NEW p \in Packs, NEW c \in Channels
                PROVE  /\ posts[p][c] = One(main[p][c].recorded) + One(Fresh(c, p))
                                        + One(Partial(c, p)) + lost[p][c]
                       /\ (Fresh(c, p) \/ Partial(c, p)) /\ main[p][c].recorded =>
                            run[c].behind
    BY DEF PostsAccounted
  <2>. DEFINE m == One(main[p][c].recorded)
              f == One(Fresh(c, p))
              b == One(Partial(c, p))
  <2>1. posts[p][c] = m + Held(c, run[c], p) + lost[p][c]
    BY DEF IInv, Balanced
  <2>2. Held(c, run[c], p) = f + b
    BY HeldIs
  <2>3. m \in Nat /\ f \in Nat /\ b \in Nat /\ lost[p][c] \in Nat
    BY DEF One, IInv, RecordTypes
  <2>4. posts[p][c] = m + f + b + lost[p][c]
    <3>. HIDE DEF m, f, b
    <3>. QED BY <2>1, <2>2, <2>3
  <2>5. ASSUME Fresh(c, p), ~run[c].behind PROVE ~main[p][c].recorded
    <3>1. run[c] # Idle /\ run[c].pc = "live" /\ p \in run[c].made /\ Knows(c, run[c])
      BY <2>5 DEF Fresh, IInv, Sound, Idle
    <3>. QED BY <2>5, <3>1 DEF Knows
  <2>6. ASSUME Partial(c, p), ~run[c].behind PROVE ~main[p][c].recorded
    <3>1. /\ run[c] # Idle /\ run[c].pc = "live" /\ p \in run[c].todo
          /\ Knows(c, run[c]) /\ Scans(c, run[c])
      BY <2>6, ScanFields DEF Partial, Sound
    <3>. QED BY <2>6, <3>1 DEF Knows, Scans
  <2>7. run[c].behind \in BOOLEAN \/ ~(Fresh(c, p) \/ Partial(c, p))
    BY RunFields DEF Fresh, Partial, Scanning, IInv, Sound, Idle
  <2>. QED BY <2>4, <2>5, <2>6, <2>7
<1>. QED BY <1>1, InitOK, NextOK, PTL DEF Spec

\* No run takes an approval or a record of somebody else off main (the commit step of the
\* workflows: a push without force, from a checkout of main).
THEOREM PushesKeepOthers == Spec => PushKeepsOthers
<1>. DEFINE Keeps(p, c) == /\ edits' = edits => main'[p][c].approved = main[p][c].approved
                           /\ main[p][c].recorded => main'[p][c].recorded
<1>1. ASSUME IInv, [Next]_vars, NEW p \in Packs, NEW c \in Channels PROVE Keeps(p, c)
  <2>1. CASE main' = main
    BY <2>1
  <2>2. ASSUME NEW q \in Packs, NEW d \in Channels, Edit(q, d) PROVE Keeps(p, c)
    <3>1. edits' # edits /\ main \in Trees
      BY <1>1, <2>2 DEF Edit, IInv, RecordTypes
    <3>2. main'[p][c].recorded = main[p][c].recorded
      BY <2>2, <3>1 DEF Edit, Trees
    <3>. QED BY <3>1, <3>2
  <2>3. ASSUME NEW d \in Channels, Push(d), main' # main PROVE Keeps(p, c)
    <3>1. main' = run[d].tree /\ ~run[d].behind /\ run[d] # Idle /\ Sound(d, run[d])
      BY <1>1, <2>3 DEF Push, Published, Done, Idle, IInv
    <3>. QED BY <3>1 DEF Sound, Knows
  <2>4. ASSUME NEW d \in Channels, Trigger(d) \/ RunAgain(d) \/ Checkout(d) \/ DryRun(d) \/ CheckHead(d) \/ BeginScan(d)
                                   \/ PostPart(d) \/ PostRefused(d) \/ AnswerLost(d) \/ Kill(d)
        PROVE  main' = main
    BY <2>4 DEF Trigger, RunAgain, Checkout, DryRun, CheckHead, BeginScan, PostPart, PostRefused, AnswerLost, Kill
  <2>5. CASE Tick \/ UNCHANGED vars
    BY <2>1, <2>5 DEF Tick, vars
  <2>. QED BY <1>1, <2>1, <2>2, <2>3, <2>4, <2>5 DEF Next, Advance
<1>2. IInv /\ [Next]_vars => [\A p \in Packs, c \in Channels : Keeps(p, c)]_vars
  BY <1>1
<1>. QED BY <1>2, InitOK, NextOK, PTL DEF Spec, PushKeepsOthers
=============================================================================
