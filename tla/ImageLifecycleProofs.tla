------------------------- MODULE ImageLifecycleProofs -------------------------
(***************************************************************************)
(* Proofs about ImageLifecycle, for every set of image ids and every       *)
(* environment.  The types come first, with the places each thread passes  *)
(* (TInv).  For a CR that nobody edits, and whose image name nobody else   *)
(* uses, five layers follow, each inductive given the ones before: the     *)
(* threads are about the CR as it was created (ThreadsInv), they take      *)
(* turns (TurnsInv), together they hold the only image there is (NamedInv),*)
(* what they saw active is active or gone (StatusInv), and what exists is  *)
(* registered (EntryInv).  TurnsInv and NamedInv need each other.          *)
(*                                                                         *)
(* The lemmas <Action>Next say what an action does, field by field; the    *)
(* lemmas <Layer>Left what it then leaves to prove.                        *)
(***************************************************************************)
EXTENDS ImageLifecycle, FiniteSetTheorems, TLAPS

-----------------------------------------------------------------------------
(* The types, and the places that each of the three threads passes. *)

Ensuring == {"find", "adopt", "create", "import", "check", "register"}
Pcs == {"idle", "modify", "drop", "unregister", "release", "look", "reap", "drift", "patch"}
       \cup Ensuring
Outs == {"unset", "ready", "importing", "notfound", "error", "active", "failed", "start", "lost",
         "retry", "mismatch"}
Statuses == {"unset", "queued", "importing", "active", "killed"}
Phases == {"new", "Provisioning", "Pending", "Ready", "Error"}
Record == [pc : Pcs, gen : Nat, external : BOOLEAN, id : MaybeImage, status : Statuses,
           retries : 0..3, out : Outs]
Resource == [exists : BOOLEAN, deleting : BOOLEAN, external : BOOLEAN, gen : Nat, handled : Nat,
             phase : Phases, id : MaybeImage, started : {"unset", "recent", "old"},
             retries : 0..2]
Picture == [status : {"none", "queued", "importing", "active", "killed"}, ours : BOOLEAN,
            requested : BOOLEAN]

Places(t) == CASE t = "job" -> {"idle", "modify", "drop", "unregister", "release", "patch"} \cup Ensuring
               [] t = "poll" -> {"idle", "look", "reap", "patch"}
               [] t = "recon" -> {"idle", "drift", "patch"} \cup Ensuring
Outcomes(t) == CASE t = "job" -> {"ready", "importing", "notfound", "error"}
                 [] t = "poll" -> {"active", "failed", "start", "lost", "retry"}
                 [] t = "recon" -> {"ready", "importing", "error", "lost", "mismatch"}
Holding == {"adopt", "import", "check", "register", "modify", "drop", "look", "reap"}

\* Where the thread t may be, and what it holds there.
Shape(t, y) ==
  /\ y.pc \in Places(t)
  /\ y.pc = "patch" => y.out \in Outcomes(t)
  /\ y.pc = "reap" => y.retries \in 1..3
  /\ y.pc = "patch" /\ y.out = "retry" => y.retries \in 0..2
  /\ y.pc = "patch" /\ y.out = "lost" => y.id = None
  /\ y.pc \in Holding \/ (y.pc = "patch" /\ y.out \in {"ready", "importing"}) => y.id \in Images

TInv == TypeOK /\ \A t \in Threads : Shape(t, thr[t])

LEMMA TypeSplit ==
  TypeOK <=> /\ env \in Environments /\ inputs \in Nat /\ cr \in Resource
             /\ thr \in [Threads -> Record] /\ img \in [Images -> Picture] /\ entry \in MaybeImage
<1>1. Pcs = {"idle", "find", "adopt", "create", "import", "check", "register", "modify", "drop",
             "unregister", "release", "look", "reap", "drift", "patch"}
  BY DEF Pcs, Ensuring
<1> QED BY <1>1, Zenon DEF TypeOK, Record, Resource, Picture, Outs, Statuses, Phases

LEMMA TypeSplitNext ==
  (TypeOK <=> /\ env \in Environments /\ inputs \in Nat /\ cr \in Resource
              /\ thr \in [Threads -> Record] /\ img \in [Images -> Picture]
              /\ entry \in MaybeImage)'
BY TypeSplit, PTL

LEMMA Blank ==
  /\ Idle \in Record /\ Idle.pc = "idle" /\ Idle.id = None /\ Idle.gen = 0
  /\ Idle.status = "unset" /\ Idle.retries = 0 /\ Idle.out = "unset"
<1>1. "idle" \in Pcs /\ "unset" \in Statuses /\ "unset" \in Outs /\ None \in MaybeImage
  BY DEF Pcs, Statuses, Outs, MaybeImage
<1> QED BY <1>1 DEF Idle, Record

LEMMA ThreadTyped ==
  ASSUME TInv, NEW t \in Threads
  PROVE  thr[t] \in Record /\ Shape(t, thr[t])
BY TypeSplit DEF TInv

-----------------------------------------------------------------------------
(* How a step changes a thread. *)

Others(t) == \A u \in Threads \ {t} : thr'[u] = thr[u]
\* Only t changes.
Alone(t) == thr' \in [Threads -> Record] /\ Others(t)
\* It goes to pc, and holds id.
Goes(t, pc, id) ==
  /\ Alone(t)
  /\ thr'[t].pc = pc /\ thr'[t].id = id
  /\ thr'[t].gen = thr[t].gen /\ thr'[t].external = thr[t].external
Finishes(t, id, out) ==
  Goes(t, "patch", id) /\ thr'[t].out = out /\ thr'[t].retries = thr[t].retries
Rests(t) == Alone(t) /\ thr'[t].pc = "idle"
Raises(t) ==
  \/ t = "recon" /\ thr[t].external /\ Rests(t)
  \/ \E id \in MaybeImage : Finishes(t, id, "error") /\ (thr[t].pc # "modify" => id = None)
Starts(t, pc, id) ==
  /\ thr[t].pc = "idle" /\ Alone(t)
  /\ thr'[t].pc = pc /\ thr'[t].id = id
  /\ thr'[t].gen = cr.gen /\ thr'[t].external = cr.external

LEMMA Assigned ==
  ASSUME TInv, NEW t \in Threads, NEW x \in Record, thr' = [thr EXCEPT ![t] = x]
  PROVE  Alone(t) /\ thr'[t] = x
BY TypeSplit DEF TInv, Alone, Others

LEMMA QuitRests ==
  ASSUME TInv, NEW t \in Threads, Quit(t)
  PROVE  Rests(t)
BY Blank, Assigned DEF Quit, Rests

LEMMA GotoGoes ==
  ASSUME TInv, NEW t \in Threads, NEW pc \in Pcs, Goto(t, pc)
  PROVE  Goes(t, pc, thr[t].id) /\ thr'[t].status = thr[t].status
<1>1. PICK y \in Record : y = thr[t]
  BY ThreadTyped
<1>2. PICK x : x = [y EXCEPT !.pc = pc]
  OBVIOUS
<1>3. /\ x \in Record /\ x.pc = pc /\ x.id = y.id /\ x.gen = y.gen /\ x.external = y.external
      /\ x.status = y.status
  BY <1>2 DEF Record
<1>4. thr' = [thr EXCEPT ![t] = x]
  BY <1>1, <1>2 DEF Goto
<1> QED BY <1>1, <1>3, <1>4, Assigned DEF Goes

LEMMA FinishFinishes ==
  ASSUME TInv, NEW t \in Threads, NEW id \in MaybeImage, NEW out \in Outs, Finish(t, id, out)
  PROVE  Finishes(t, id, out)
<1>1. PICK y \in Record : y = thr[t]
  BY ThreadTyped
<1>2. PICK x : x = [y EXCEPT !.pc = "patch", !.id = id, !.out = out]
  OBVIOUS
<1>3. "patch" \in Pcs
  BY DEF Pcs
<1>4. /\ x \in Record /\ x.pc = "patch" /\ x.id = id /\ x.gen = y.gen /\ x.external = y.external
      /\ x.retries = y.retries /\ x.out = out
  BY <1>2, <1>3 DEF Record
<1>5. thr \in [Threads -> Record]
  BY TypeSplit DEF TInv
<1>6. thr' = [thr EXCEPT ![t] = x]
  BY <1>1, <1>2, <1>5 DEF Finish
<1>7. Alone(t) /\ thr'[t] = x
  BY <1>4, <1>6, Assigned
<1> QED BY <1>1, <1>4, <1>7 DEF Finishes, Goes

LEMMA RaiseRaises ==
  ASSUME TInv, NEW t \in Threads, Raise(t)
  PROVE  Raises(t)
<1>1. PICK id \in MaybeImage : id = IF thr[t].pc = "modify" THEN thr[t].id ELSE None
  BY ThreadTyped DEF Record, MaybeImage
<1>2. "error" \in Outs
  BY DEF Outs
<1> QED BY <1>1, <1>2, QuitRests, FinishFinishes DEF Raise, Raises

LEMMA BeginStarts ==
  ASSUME TInv, NEW t \in Threads, NEW pc \in Pcs, NEW id \in MaybeImage, Begin(t, pc, id)
  PROVE  Starts(t, pc, id) /\ UNCHANGED <<env, inputs, cr, img, entry>>
<1>1. PICK y \in Record : y = Idle
  BY Blank
<1>2. PICK x : x = [y EXCEPT !.pc = pc, !.gen = cr.gen, !.external = cr.external, !.id = id]
  OBVIOUS
<1>3. cr.gen \in Nat /\ cr.external \in BOOLEAN
  BY TypeSplit DEF TInv, Resource
<1>4. x \in Record /\ x.pc = pc /\ x.id = id /\ x.gen = cr.gen /\ x.external = cr.external
  BY <1>2, <1>3 DEF Record
<1>5. thr[t].pc = "idle" /\ thr' = [thr EXCEPT ![t] = x] /\ UNCHANGED <<env, inputs, cr, img, entry>>
  BY <1>1, <1>2 DEF Begin
<1> QED BY <1>4, <1>5, Assigned DEF Starts

-----------------------------------------------------------------------------
(* What each action does. *)

LEMMA ThreadNames == "job" \in Threads /\ "poll" \in Threads /\ "recon" \in Threads
BY DEF Threads

LEMMA ImageTyped ==
  ASSUME TInv, NEW i \in Images
  PROVE  img[i] \in Picture /\ i \in MaybeImage
BY TypeSplit DEF TInv, MaybeImage

\* Image i is gone, the others stay.
Removes(i) ==
  /\ img' \in [Images -> Picture] /\ \A j \in Images \ {i} : img'[j] = img[j]
  /\ i \in Images => img'[i].status = "none"

LEMMA RemoveRemoves ==
  ASSUME TInv, NEW i, Remove(i)
  PROVE  Removes(i)
<1>1. PICK x : x = NoImage
  OBVIOUS
<1>2. x \in Picture /\ x.status = "none"
  BY <1>1 DEF NoImage, Picture
<1>3. img \in [Images -> Picture]
  BY TypeSplit DEF TInv
<1>4. img' = [img EXCEPT ![i] = x]
  BY <1>1 DEF Remove
<1> QED BY <1>2, <1>3, <1>4 DEF Removes

LEMMA FindNext ==
  ASSUME TInv, NEW t \in Threads, Find(t)
  PROVE  /\ thr[t].pc = "find" /\ UNCHANGED <<env, inputs, cr, img, entry>>
         /\ \/ \E i \in Named : Goes(t, "adopt", i) /\ thr'[t].status = img[i].status
            \/ Named = {} /\ ~thr[t].external /\ Goes(t, "create", thr[t].id)
            \/ thr[t].external /\ t = "job" /\ Finishes(t, None, "notfound")
            \/ thr[t].external /\ t = "recon" /\ Rests(t)
<1>1. CASE \E i \in Named : thr' = [thr EXCEPT ![t].pc = "adopt", ![t].id = i,
                                                ![t].status = img[i].status]
  <2>1. PICK i \in Named : thr' = [thr EXCEPT ![t].pc = "adopt", ![t].id = i,
                                               ![t].status = img[i].status]
    BY <1>1
  <2>2. PICK y \in Record : y = thr[t]
    BY ThreadTyped
  <2>3. i \in MaybeImage /\ img[i] \in Picture /\ img[i].status # "none"
    BY ImageTyped DEF Named, Exists
  <2>4. PICK s : s = img[i].status
    OBVIOUS
  <2>5. s \in Statuses
    BY <2>3, <2>4 DEF Picture, Statuses
  <2>6. PICK x : x = [y EXCEPT !.pc = "adopt", !.id = i, !.status = s]
    OBVIOUS
  <2>7. "adopt" \in Pcs
    BY DEF Pcs, Ensuring
  <2>8. /\ x \in Record /\ x.pc = "adopt" /\ x.id = i /\ x.gen = y.gen /\ x.external = y.external
        /\ x.status = s
    BY <2>3, <2>5, <2>6, <2>7 DEF Record
  <2>9. thr \in [Threads -> Record]
    BY TypeSplit DEF TInv
  <2>10. thr' = [thr EXCEPT ![t] = x]
    BY <2>1, <2>2, <2>4, <2>6, <2>9
  <2>11. Goes(t, "adopt", i) /\ thr'[t].status = img[i].status
    BY <2>2, <2>4, <2>8, <2>10, Assigned DEF Goes
  <2> QED BY <2>11 DEF Find
<1>2. CASE Named = {} /\ ~thr[t].external /\ Goto(t, "create")
  BY <1>2, GotoGoes DEF Find, Pcs, Ensuring
<1>3. CASE Named = {} /\ thr[t].external /\ t = "job" /\ Finish(t, None, "notfound")
  BY <1>3, FinishFinishes DEF Find, Outs, MaybeImage
<1>4. CASE Named = {} /\ thr[t].external /\ t = "recon" /\ Quit(t)
  BY <1>4, QuitRests DEF Find
<1> QED BY <1>1, <1>2, <1>3, <1>4 DEF Find

LEMMA AdoptNext ==
  ASSUME TInv, NEW t \in Threads, Adopt(t)
  PROVE  /\ thr[t].pc = "adopt" /\ thr[t].id \in Images /\ UNCHANGED <<env, inputs, cr, img, entry>>
         /\ \/ thr[t].external /\ Finishes(t, thr[t].id, "ready")
            \/ ~thr[t].external /\ Goes(t, "register", thr[t].id) /\ thr'[t].status = thr[t].status
            \/ Raises(t)
<1>1. thr[t].pc = "adopt" /\ thr[t].id \in Images /\ thr[t].id \in MaybeImage
  BY ThreadTyped DEF Adopt, Shape, Holding, MaybeImage
<1> QED BY <1>1, FinishFinishes, GotoGoes, RaiseRaises DEF Adopt, Outs, Pcs, Ensuring

LEMMA CreateNext ==
  ASSUME TInv, NEW t \in Threads, Create(t)
  PROVE  /\ thr[t].pc = "create" /\ UNCHANGED <<env, inputs, cr, entry>>
         /\ \E i \in Images :
              /\ ~Exists(i) /\ Goes(t, "import", i)
              /\ img' \in [Images -> Picture] /\ \A j \in Images \ {i} : img'[j] = img[j]
              /\ img'[i].status = "queued" /\ img'[i].ours
<1>1. PICK i \in Images :
        /\ Fresh(i)
        /\ img' = [img EXCEPT ![i] = [NoImage EXCEPT !.status = "queued", !.ours = TRUE]]
        /\ thr' = [thr EXCEPT ![t].pc = "import", ![t].id = i]
  BY DEF Create
<1>2. PICK w : w = [NoImage EXCEPT !.status = "queued", !.ours = TRUE]
  OBVIOUS
<1>3. w \in Picture /\ w.status = "queued" /\ w.ours
  BY <1>2 DEF NoImage, Picture
<1>4. /\ img' \in [Images -> Picture] /\ \A j \in Images \ {i} : img'[j] = img[j]
      /\ img'[i].status = "queued" /\ img'[i].ours
  <2>1. img \in [Images -> Picture]
    BY TypeSplit DEF TInv
  <2>2. img' = [img EXCEPT ![i] = w]
    BY <1>1, <1>2
  <2> QED BY <1>3, <2>1, <2>2
<1>5. PICK y \in Record : y = thr[t]
  BY ThreadTyped
<1>6. PICK x : x = [y EXCEPT !.pc = "import", !.id = i]
  OBVIOUS
<1>7. "import" \in Pcs /\ i \in MaybeImage
  BY DEF Pcs, Ensuring, MaybeImage
<1>8. x \in Record /\ x.pc = "import" /\ x.id = i /\ x.gen = y.gen /\ x.external = y.external
  BY <1>6, <1>7 DEF Record
<1>9. thr \in [Threads -> Record]
  BY TypeSplit DEF TInv
<1>10. thr' = [thr EXCEPT ![t] = x]
  BY <1>1, <1>5, <1>6, <1>9
<1>11. Goes(t, "import", i)
  BY <1>5, <1>8, <1>10, Assigned DEF Goes
<1> QED BY <1>1, <1>4, <1>11 DEF Create, Fresh, Free

\* Requesting an import changes nothing else of an image.
Requests(i) ==
  /\ img' \in [Images -> Picture]
  /\ \A j \in Images : img'[j].status = img[j].status /\ img'[j].ours = img[j].ours

LEMMA ImportNext ==
  ASSUME TInv, NEW t \in Threads, Import(t)
  PROVE  /\ thr[t].pc = "import" /\ thr[t].id \in Images /\ UNCHANGED <<env, inputs, cr, entry>>
         /\ \/ Requests(thr[t].id) /\ Goes(t, "check", thr[t].id)
            \/ ~Exists(thr[t].id) /\ Raises(t) /\ UNCHANGED img
<1>1. thr[t].pc = "import" /\ thr[t].id \in Images
  BY ThreadTyped DEF Import, Shape, Holding
<1>2. CASE img' = [img EXCEPT ![thr[t].id].requested = TRUE] /\ Goto(t, "check")
  <2>1. PICK i \in Images : i = thr[t].id
    BY <1>1
  <2>2. PICK w \in Picture : w = img[i]
    BY ImageTyped
  <2>3. PICK v : v = [w EXCEPT !.requested = TRUE]
    OBVIOUS
  <2>4. v \in Picture /\ v.status = w.status /\ v.ours = w.ours
    BY <2>3 DEF Picture
  <2>5. img \in [Images -> Picture]
    BY TypeSplit DEF TInv
  <2>6. img' = [img EXCEPT ![i] = v]
    BY <1>2, <2>1, <2>2, <2>3
  <2>7. Requests(i)
    BY <2>2, <2>4, <2>5, <2>6 DEF Requests
  <2> QED BY <1>1, <1>2, <2>1, <2>7, GotoGoes DEF Import, Pcs, Ensuring
<1>3. CASE ~Exists(thr[t].id) /\ Raise(t) /\ UNCHANGED img
  BY <1>1, <1>3, RaiseRaises DEF Import
<1> QED BY <1>2, <1>3 DEF Import

LEMMA CheckNext ==
  ASSUME TInv, NEW t \in Threads, Check(t)
  PROVE  /\ thr[t].pc = "check" /\ thr[t].id \in Images /\ UNCHANGED <<env, inputs, cr, img, entry>>
         /\ Goes(t, "register", thr[t].id)
         /\ thr'[t].status = "active" => img[thr[t].id].status = "active"
<1>1. thr[t].pc = "check" /\ thr[t].id \in Images
  BY ThreadTyped DEF Check, Shape, Holding
<1>2. PICK s : s = IF Exists(thr[t].id) THEN img[thr[t].id].status ELSE "queued"
  OBVIOUS
<1>3. s \in Statuses /\ (s = "active" => img[thr[t].id].status = "active")
  BY <1>1, <1>2, ImageTyped DEF Exists, Picture, Statuses
<1>4. PICK y \in Record : y = thr[t]
  BY ThreadTyped
<1>5. PICK x : x = [y EXCEPT !.pc = "register", !.status = s]
  OBVIOUS
<1>6. "register" \in Pcs
  BY DEF Pcs, Ensuring
<1>7. /\ x \in Record /\ x.pc = "register" /\ x.id = y.id /\ x.gen = y.gen
      /\ x.external = y.external /\ x.status = s
  BY <1>3, <1>5, <1>6 DEF Record
<1>8. thr \in [Threads -> Record]
  BY TypeSplit DEF TInv
<1>9. thr' = [thr EXCEPT ![t].pc = "register", ![t].status = s]
  BY <1>2 DEF Check
<1>10. thr' = [thr EXCEPT ![t] = x]
  BY <1>4, <1>5, <1>8, <1>9
<1>11. Goes(t, "register", thr[t].id) /\ thr'[t].status = s
  BY <1>4, <1>7, <1>10, Assigned DEF Goes
<1> QED BY <1>1, <1>3, <1>11 DEF Check

LEMMA RegisterNext ==
  ASSUME TInv, NEW t \in Threads, Register(t)
  PROVE  /\ thr[t].pc = "register" /\ thr[t].id \in Images /\ UNCHANGED <<env, inputs, cr, img>>
         /\ entry' = thr[t].id
         /\ \/ thr[t].status = "active" /\ Finishes(t, thr[t].id, "ready")
            \/ Finishes(t, thr[t].id, "importing")
<1>1. thr[t].pc = "register" /\ thr[t].id \in Images /\ thr[t].id \in MaybeImage
  BY ThreadTyped DEF Register, Shape, Holding, MaybeImage
<1> QED BY <1>1, FinishFinishes DEF Register, Outs

LEMMA ModifyNext ==
  ASSUME TInv, Modify
  PROVE  /\ thr["job"].pc = "modify" /\ UNCHANGED <<env, inputs, cr, img, entry>>
         /\ thr["job"].id \in Images
         /\ Finishes("job", thr["job"].id, "ready") \/ Raises("job")
<1>1. thr["job"].pc = "modify" /\ thr["job"].id \in Images /\ thr["job"].id \in MaybeImage
  BY ThreadTyped, ThreadNames DEF Modify, Shape, Holding, MaybeImage
<1> QED BY <1>1, FinishFinishes, RaiseRaises, ThreadNames DEF Modify, Outs

LEMMA DropNext ==
  ASSUME TInv, Drop
  PROVE  /\ thr["job"].pc = "drop" /\ UNCHANGED <<env, inputs, cr, entry>>
         /\ thr["job"].id \in Images /\ Removes(thr["job"].id)
         /\ Goes("job", "unregister", thr["job"].id)
<1>1. thr["job"].pc = "drop" /\ thr["job"].id \in Images
  BY ThreadTyped, ThreadNames DEF Drop, Shape, Holding
<1> QED BY <1>1, RemoveRemoves, GotoGoes, ThreadNames DEF Drop, Pcs

LEMMA UnregisterNext ==
  ASSUME TInv, Unregister
  PROVE  /\ thr["job"].pc = "unregister" /\ UNCHANGED <<env, inputs, cr, img>> /\ entry' = None
         /\ Goes("job", "release", thr["job"].id)
BY GotoGoes, ThreadNames DEF Unregister, Pcs

LEMMA ReleaseNext ==
  ASSUME TInv, Release
  PROVE  /\ thr["job"].pc = "release" /\ thr["poll"].pc = "idle" /\ thr["recon"].pc = "idle"
         /\ UNCHANGED <<env, inputs, img, entry>> /\ Rests("job")
         /\ cr' \in Resource /\ ~cr'.exists /\ ~cr'.deleting
<1>1. PICK x : x = AbsentCR
  OBVIOUS
<1>2. x \in Resource /\ ~x.exists /\ ~x.deleting
  BY <1>1 DEF AbsentCR, Resource, Phases, MaybeImage
<1> QED BY <1>1, <1>2, QuitRests, ThreadNames DEF Release

LEMMA PollImageNext ==
  ASSUME TInv, PollImage
  PROVE  /\ thr["poll"].pc = "look" /\ UNCHANGED <<env, inputs, cr, img, entry>>
         /\ thr["poll"].id \in Images
         /\ \/ Finishes("poll", None, "lost")
            \/ Finishes("poll", thr["poll"].id, "active") /\ img[thr["poll"].id].status = "active"
            \/ Finishes("poll", thr["poll"].id, "failed")
            \/ Finishes("poll", thr["poll"].id, "start")
            \/ Rests("poll")
            \/ Goes("poll", "reap", thr["poll"].id) /\ thr'["poll"].retries \in 1..3
<1>1. PICK i \in Images : i = thr["poll"].id
  BY ThreadTyped, ThreadNames DEF PollImage, Shape, Holding
<1>2. PICK s : s = img[i].status
  OBVIOUS
<1>3. /\ s \in {"none", "queued", "importing", "active", "killed"} /\ i \in MaybeImage
      /\ cr.started \in {"unset", "recent", "old"} /\ cr.retries \in 0..2
  BY <1>2, ImageTyped, TypeSplit DEF TInv, Picture, Resource
<1>4. thr["poll"].pc = "look" /\ UNCHANGED <<env, inputs, cr, img, entry>>
  BY DEF PollImage
<1>5. \/ Finish("poll", None, "lost")
      \/ s = "active" /\ Finish("poll", i, "active")
      \/ Finish("poll", i, "failed")
      \/ Quit("poll")
      \/ Finish("poll", i, "start")
      \/ thr' = [thr EXCEPT !["poll"].pc = "reap", !["poll"].retries = cr.retries + 1]
  BY <1>1, <1>2, <1>3 DEF PollImage, Exists
<1>6. CASE thr' = [thr EXCEPT !["poll"].pc = "reap", !["poll"].retries = cr.retries + 1]
  <2>1. PICK y \in Record : y = thr["poll"]
    BY ThreadTyped, ThreadNames
  <2>2. PICK k \in 1..3 : k = cr.retries + 1
    BY <1>3
  <2>3. PICK x : x = [y EXCEPT !.pc = "reap", !.retries = k]
    OBVIOUS
  <2>4. "reap" \in Pcs /\ k \in 0..3
    BY DEF Pcs
  <2>5. /\ x \in Record /\ x.pc = "reap" /\ x.id = y.id /\ x.gen = y.gen
        /\ x.external = y.external /\ x.retries = k
    BY <2>3, <2>4 DEF Record
  <2>6. thr \in [Threads -> Record]
    BY TypeSplit DEF TInv
  <2>7. thr' = [thr EXCEPT !["poll"].pc = "reap", !["poll"].retries = k]
    BY <1>6, <2>2
  <2>8. thr' = [thr EXCEPT !["poll"] = x]
    BY <2>1, <2>3, <2>6, <2>7
  <2>9. Goes("poll", "reap", thr["poll"].id) /\ thr'["poll"].retries \in 1..3
    BY <2>1, <2>2, <2>5, <2>8, Assigned, ThreadNames DEF Goes
  <2> QED BY <1>1, <1>4, <2>9
<1>7. "lost" \in Outs /\ "active" \in Outs /\ "failed" \in Outs /\ "start" \in Outs /\ None \in MaybeImage
  BY DEF Outs, MaybeImage
<1> QED BY <1>1, <1>2, <1>3, <1>4, <1>5, <1>6, <1>7, FinishFinishes, QuitRests, ThreadNames

LEMMA ReapImageNext ==
  ASSUME TInv, ReapImage
  PROVE  /\ thr["poll"].pc = "reap" /\ UNCHANGED <<env, inputs, cr, entry>>
         /\ thr["poll"].id \in Images
         /\ Removes(thr["poll"].id) \/ UNCHANGED img
         /\ \/ thr["poll"].retries < 3 /\ Finishes("poll", thr["poll"].id, "retry")
            \/ Finishes("poll", thr["poll"].id, "failed")
<1>1. thr["poll"].pc = "reap" /\ thr["poll"].id \in Images /\ thr["poll"].id \in MaybeImage
  BY ThreadTyped, ThreadNames DEF ReapImage, Shape, Holding, MaybeImage
<1> QED BY <1>1, FinishFinishes, RemoveRemoves, ThreadNames DEF ReapImage, Outs

LEMMA DriftNext ==
  ASSUME TInv, Drift
  PROVE  /\ thr["recon"].pc = "drift" /\ UNCHANGED <<env, inputs, cr, img, entry>>
         /\ \/ Finishes("recon", None, "lost")
            \/ \E i \in Named \ {cr.id} : Finishes("recon", i, "mismatch")
            \/ Rests("recon")
<1>1. \A i \in Named : i \in MaybeImage
  BY DEF Named, MaybeImage
<1>2. "lost" \in Outs /\ "mismatch" \in Outs /\ None \in MaybeImage
  BY DEF Outs, MaybeImage
<1>3. CASE \E i \in Named \ {cr.id} : Finish("recon", i, "mismatch")
  <2>1. PICK i \in Named \ {cr.id} : Finish("recon", i, "mismatch")
    BY <1>3
  <2>2. Finishes("recon", i, "mismatch")
    BY <1>1, <1>2, <2>1, FinishFinishes, ThreadNames
  <2> QED BY <2>2 DEF Drift
<1> QED BY <1>2, <1>3, FinishFinishes, QuitRests, ThreadNames DEF Drift

LEMMA FailCallNext ==
  ASSUME TInv, NEW t \in Threads, FailCall(t)
  PROVE  /\ "api" \in faults /\ thr[t].pc \notin {"idle", "patch", "release", "reap"}
         /\ UNCHANGED <<env, inputs, cr, img, entry>>
         /\ \/ Raises(t) /\ thr[t].pc \in Ensuring \cup {"modify"}
            \/ Rests(t) /\ thr[t].pc \notin Ensuring
BY QuitRests, RaiseRaises DEF FailCall, Ensuring

\* A patch of the status: the rest of the CR stays.
Updates ==
  /\ cr' \in Resource
  /\ cr'.exists = cr.exists /\ cr'.deleting = cr.deleting /\ cr'.external = cr.external
  /\ cr'.gen = cr.gen

LEMMA PatchJobNext ==
  ASSUME TInv, PatchJob
  PROVE  /\ thr["job"].pc = "patch" /\ UNCHANGED <<env, inputs, img, entry>>
         /\ Rests("job") /\ Updates
         /\ \/ /\ thr["job"].out = "ready" /\ cr'.phase = "Ready"
               /\ cr'.id = thr["job"].id /\ cr'.id \in Images /\ cr'.handled = thr["job"].gen
            \/ /\ thr["job"].out = "importing" /\ cr'.phase = "Provisioning"
               /\ cr'.id = thr["job"].id /\ cr'.id \in Images /\ cr'.handled = thr["job"].gen
            \/ thr["job"].out = "notfound" /\ cr'.handled = cr.handled
            \/ /\ thr["job"].out = "error" /\ cr'.phase = "Error" /\ cr'.handled = cr.handled
               /\ thr["job"].id = None => cr'.id = cr.id
<1>1. PICK j \in Record : j = thr["job"]
  BY ThreadTyped, ThreadNames
<1>2. PICK c \in Resource : c = cr
  BY TypeSplit DEF TInv
<1>3. /\ j.pc = "patch" /\ UNCHANGED <<env, inputs, img, entry>> /\ Rests("job")
      /\ j.out \in {"ready", "importing", "notfound", "error"}
      /\ j.out \in {"ready", "importing"} => j.id \in Images
  BY <1>1, ThreadTyped, ThreadNames, QuitRests DEF PatchJob, Shape, Outcomes
<1>4. PICK phase \in Phases :
        phase = (CASE j.out = "ready" -> "Ready" [] j.out = "importing" -> "Provisioning"
                   [] j.out = "notfound" /\ c.handled = 0 -> "Pending" [] OTHER -> "Error")
  BY DEF Phases
<1>5. PICK id \in MaybeImage : id = IF j.id # None THEN j.id ELSE c.id
  BY <1>1, <1>2 DEF Record, Resource
<1>6. PICK started \in {"unset", "recent", "old"} :
        started = IF j.out = "importing" THEN "recent" ELSE c.started
  BY <1>2 DEF Resource
<1>7. PICK retries \in 0..2 : retries = IF j.out = "importing" THEN 0 ELSE c.retries
  BY <1>2 DEF Resource
<1>8. PICK handled \in Nat :
        handled = IF j.out \in {"ready", "importing"} THEN j.gen ELSE c.handled
  BY <1>1, <1>2 DEF Record, Resource
<1>9. PICK d : d = [c EXCEPT !.phase = phase, !.id = id, !.started = started,
                             !.retries = retries, !.handled = handled]
  OBVIOUS
<1>10. /\ d \in Resource /\ d.exists = c.exists /\ d.deleting = c.deleting
       /\ d.external = c.external /\ d.gen = c.gen
       /\ d.phase = phase /\ d.id = id /\ d.handled = handled
  BY <1>9 DEF Resource
<1>11. cr' = [c EXCEPT !.phase = phase, !.id = id, !.started = started,
                       !.retries = retries, !.handled = handled]
  BY <1>1, <1>2, <1>4, <1>5, <1>6, <1>7, <1>8 DEF PatchJob
<1>12. cr' = d
  BY <1>9, <1>11
<1>13. Updates
  BY <1>2, <1>10, <1>12 DEF Updates
<1>14. j.id \in Images => j.id # None
  BY ImageAssumption
<1> QED BY <1>1, <1>2, <1>3, <1>4, <1>5, <1>8, <1>10, <1>12, <1>13, <1>14

LEMMA PatchPollNext ==
  ASSUME TInv, PatchPoll
  PROVE  /\ thr["poll"].pc = "patch" /\ UNCHANGED <<env, inputs, img, entry>>
         /\ Rests("poll") /\ Updates /\ cr'.handled = cr.handled
         /\ \/ thr["poll"].out = "active" /\ cr'.phase = "Ready" /\ cr'.id = cr.id
            \/ thr["poll"].out = "failed" /\ cr'.phase = "Error" /\ cr'.id = cr.id
            \/ thr["poll"].out = "start" /\ cr'.phase = cr.phase /\ cr'.id = cr.id
            \/ thr["poll"].out \in {"lost", "retry"} /\ cr'.phase = "Pending" /\ cr'.id = None
<1>1. PICK p \in Record : p = thr["poll"]
  BY ThreadTyped, ThreadNames
<1>2. PICK c \in Resource : c = cr
  BY TypeSplit DEF TInv
<1>3. /\ p.pc = "patch" /\ UNCHANGED <<env, inputs, img, entry>> /\ Rests("poll")
      /\ p.out \in {"active", "failed", "start", "lost", "retry"}
      /\ p.out = "retry" => p.retries \in 0..2
  BY <1>1, ThreadTyped, ThreadNames, QuitRests DEF PatchPoll, Shape, Outcomes
<1>4. "Ready" \in Phases /\ "Error" \in Phases /\ "Pending" \in Phases /\ None \in MaybeImage
  BY DEF Phases, MaybeImage
<1>5. PICK d : d = cr'
  OBVIOUS
<1>6. CASE p.out = "active"
  <2>1. d = [c EXCEPT !.phase = "Ready"]
    BY <1>1, <1>2, <1>5, <1>6 DEF PatchPoll
  <2> QED BY <1>1, <1>2, <1>3, <1>4, <1>5, <1>6, <2>1 DEF Resource, Updates
<1>7. CASE p.out = "failed"
  <2>1. d = [c EXCEPT !.phase = "Error"]
    BY <1>1, <1>2, <1>5, <1>7 DEF PatchPoll
  <2> QED BY <1>1, <1>2, <1>3, <1>4, <1>5, <1>7, <2>1 DEF Resource, Updates
<1>8. CASE p.out = "start"
  <2>1. d = [c EXCEPT !.started = "recent"]
    BY <1>1, <1>2, <1>5, <1>8 DEF PatchPoll
  <2> QED BY <1>1, <1>2, <1>3, <1>5, <1>8, <2>1 DEF Resource, Updates
<1>9. CASE p.out = "lost"
  <2>1. d = [c EXCEPT !.phase = "Pending", !.id = None]
    BY <1>1, <1>2, <1>5, <1>9 DEF PatchPoll
  <2>2. /\ d \in Resource /\ d.exists = c.exists /\ d.deleting = c.deleting
        /\ d.external = c.external /\ d.gen = c.gen /\ d.handled = c.handled
        /\ d.phase = "Pending" /\ d.id = None
    BY <1>4, <2>1 DEF Resource
  <2> QED BY <1>1, <1>2, <1>3, <1>5, <1>9, <2>2 DEF Updates
<1>10. CASE p.out = "retry"
  <2>1. PICK k \in 0..2 : k = p.retries
    BY <1>3, <1>10
  <2>2. d = [c EXCEPT !.phase = "Pending", !.id = None, !.started = "unset", !.retries = k]
    BY <1>1, <1>2, <1>5, <1>10, <2>1 DEF PatchPoll
  <2>3. /\ d \in Resource /\ d.exists = c.exists /\ d.deleting = c.deleting
        /\ d.external = c.external /\ d.gen = c.gen /\ d.handled = c.handled
        /\ d.phase = "Pending" /\ d.id = None
    BY <1>4, <2>2 DEF Resource
  <2> QED BY <1>1, <1>2, <1>3, <1>5, <1>10, <2>3 DEF Updates
<1> QED BY <1>3, <1>6, <1>7, <1>8, <1>9, <1>10

LEMMA PatchReconNext ==
  ASSUME TInv, PatchRecon
  PROVE  /\ thr["recon"].pc = "patch" /\ UNCHANGED <<env, inputs, img, entry>>
         /\ Rests("recon") /\ Updates /\ cr'.handled = cr.handled
         /\ \/ /\ thr["recon"].out = "ready" /\ cr'.phase = "Ready"
               /\ cr'.id = thr["recon"].id /\ cr'.id \in Images
            \/ /\ thr["recon"].out = "importing" /\ cr'.phase = "Provisioning"
               /\ cr'.id = thr["recon"].id /\ cr'.id \in Images
            \/ thr["recon"].out = "error" /\ cr'.phase = "Error" /\ cr'.id = cr.id
            \/ /\ thr["recon"].out \in {"lost", "mismatch"} /\ cr'.phase = "Pending"
               /\ cr'.id = thr["recon"].id
<1>1. PICK p \in Record : p = thr["recon"]
  BY ThreadTyped, ThreadNames
<1>2. PICK c \in Resource : c = cr
  BY TypeSplit DEF TInv
<1>3. /\ p.pc = "patch" /\ UNCHANGED <<env, inputs, img, entry>> /\ Rests("recon")
      /\ p.out \in {"ready", "importing", "error", "lost", "mismatch"}
      /\ p.out \in {"ready", "importing"} => p.id \in Images
  BY <1>1, ThreadTyped, ThreadNames, QuitRests DEF PatchRecon, Shape, Outcomes
<1>4. /\ "Ready" \in Phases /\ "Error" \in Phases /\ "Pending" \in Phases
      /\ "Provisioning" \in Phases
  BY DEF Phases
<1>5. PICK d : d = cr'
  OBVIOUS
<1>6. PICK i \in MaybeImage : i = p.id
  BY DEF Record
<1>7. CASE p.out = "ready"
  <2>1. d = [c EXCEPT !.phase = "Ready", !.id = i]
    BY <1>1, <1>2, <1>5, <1>6, <1>7 DEF PatchRecon
  <2>2. /\ d \in Resource /\ d.exists = c.exists /\ d.deleting = c.deleting
        /\ d.external = c.external /\ d.gen = c.gen /\ d.handled = c.handled
        /\ d.phase = "Ready" /\ d.id = i
    BY <1>4, <2>1 DEF Resource
  <2> QED BY <1>1, <1>2, <1>3, <1>5, <1>6, <1>7, <2>2 DEF Updates
<1>8. CASE p.out = "importing"
  <2>1. d = [c EXCEPT !.phase = "Provisioning", !.id = i, !.started = "recent"]
    BY <1>1, <1>2, <1>5, <1>6, <1>8 DEF PatchRecon
  <2>2. /\ d \in Resource /\ d.exists = c.exists /\ d.deleting = c.deleting
        /\ d.external = c.external /\ d.gen = c.gen /\ d.handled = c.handled
        /\ d.phase = "Provisioning" /\ d.id = i
    BY <1>4, <2>1 DEF Resource
  <2> QED BY <1>1, <1>2, <1>3, <1>5, <1>6, <1>8, <2>2 DEF Updates
<1>9. CASE p.out = "error"
  <2>1. d = [c EXCEPT !.phase = "Error"]
    BY <1>1, <1>2, <1>5, <1>9 DEF PatchRecon
  <2> QED BY <1>1, <1>2, <1>3, <1>4, <1>5, <1>9, <2>1 DEF Resource, Updates
<1>10. CASE p.out \in {"lost", "mismatch"}
  <2>1. d = [c EXCEPT !.phase = "Pending", !.id = i]
    BY <1>1, <1>2, <1>5, <1>6, <1>10 DEF PatchRecon
  <2>2. /\ d \in Resource /\ d.exists = c.exists /\ d.deleting = c.deleting
        /\ d.external = c.external /\ d.gen = c.gen /\ d.handled = c.handled
        /\ d.phase = "Pending" /\ d.id = i
    BY <1>4, <2>1 DEF Resource
  <2> QED BY <1>1, <1>2, <1>3, <1>5, <1>6, <1>10, <2>2 DEF Updates
<1> QED BY <1>3, <1>7, <1>8, <1>9, <1>10

LEMMA BeginNext ==
  ASSUME TInv, BeginCreate \/ BeginUpdate \/ BeginDelete \/ BeginPoll \/ BeginRecon
  PROVE  /\ UNCHANGED <<env, inputs, cr, img, entry>>
         /\ \/ Live /\ cr.handled = 0 /\ Starts("job", "find", None)
            \/ /\ Live /\ 0 < cr.handled /\ cr.handled < cr.gen
               /\ \/ Starts("job", "find", None)
                  \/ cr.id \in Images /\ Starts("job", "modify", cr.id)
            \/ cr.deleting /\ Starts("job", "release", None) /\ (cr.external \/ cr.id = None)
            \/ /\ cr.deleting /\ cr.id \in Images /\ ~cr.external
               /\ Starts("job", "drop", cr.id)
            \/ /\ Live /\ cr.phase \in {"Provisioning", "Pending"} /\ cr.id \in Images
               /\ Starts("poll", "look", cr.id)
            \/ Live /\ cr.phase = "Pending" /\ Starts("recon", "find", None)
            \/ Live /\ cr.phase = "Ready" /\ Starts("recon", "drift", None)
<1>1. /\ cr.id \in MaybeImage /\ None \in MaybeImage
      /\ cr.id # None => cr.id \in Images
  BY TypeSplit DEF TInv, Resource, MaybeImage
<1>2. "find" \in Pcs /\ "modify" \in Pcs /\ "release" \in Pcs /\ "drop" \in Pcs /\ "look" \in Pcs
      /\ "drift" \in Pcs
  BY DEF Pcs, Ensuring
<1>3. CASE BeginCreate
  BY <1>1, <1>2, <1>3, BeginStarts, ThreadNames DEF BeginCreate
<1>4. CASE BeginUpdate
  BY <1>1, <1>2, <1>4, BeginStarts, ThreadNames DEF BeginUpdate
<1>5. CASE BeginDelete
  BY <1>1, <1>2, <1>5, BeginStarts, ThreadNames DEF BeginDelete
<1>6. CASE BeginPoll
  BY <1>1, <1>2, <1>6, BeginStarts, ThreadNames DEF BeginPoll
<1>7. CASE BeginRecon
  BY <1>1, <1>2, <1>7, BeginStarts, ThreadNames DEF BeginRecon
<1> QED BY <1>3, <1>4, <1>5, <1>6, <1>7

LEMMA UserCreatesNext ==
  ASSUME TInv, UserCreates
  PROVE  /\ ~cr.exists /\ inputs' \in Nat /\ UNCHANGED <<env, thr, img, entry>>
         /\ cr' \in Resource /\ cr'.exists /\ cr'.gen = 1 /\ cr'.handled = 0 /\ cr'.phase = "new"
         /\ cr'.id = None
<1>1. PICK x \in env.external :
        cr' = [AbsentCR EXCEPT !.exists = TRUE, !.gen = 1, !.external = x]
  BY DEF UserCreates
<1>2. x \in BOOLEAN
  BY TypeSplit, EnvAssumption DEF TInv
<1>3. PICK c : c = AbsentCR
  OBVIOUS
<1>4. /\ c \in Resource /\ c.handled = 0 /\ c.phase = "new" /\ c.id = None
  BY <1>3 DEF AbsentCR, Resource, Phases, MaybeImage
<1>5. PICK d : d = [c EXCEPT !.exists = TRUE, !.gen = 1, !.external = x]
  OBVIOUS
<1>6. /\ d \in Resource /\ d.exists /\ d.gen = 1 /\ d.handled = 0 /\ d.phase = "new" /\ d.id = None
  BY <1>2, <1>4, <1>5 DEF Resource
<1>7. cr' = d
  BY <1>1, <1>3, <1>5
<1>8. inputs' \in Nat
  BY TypeSplit DEF TInv, UserCreates
<1> QED BY <1>6, <1>7, <1>8 DEF UserCreates

LEMMA UserEditsNext ==
  ASSUME TInv, UserEdits
  PROVE  /\ ~Undisturbed /\ inputs' \in Nat /\ UNCHANGED <<env, thr, img, entry>>
         /\ cr' \in Resource
<1>1. PICK x \in env.external : cr' = [cr EXCEPT !.gen = @ + 1, !.external = x]
  BY DEF UserEdits
<1>2. x \in BOOLEAN
  BY TypeSplit, EnvAssumption DEF TInv
<1>3. PICK c \in Resource : c = cr
  BY TypeSplit DEF TInv
<1>4. PICK k \in Nat : k = c.gen + 1
  BY DEF Resource
<1>5. PICK d : d = [c EXCEPT !.gen = k, !.external = x]
  OBVIOUS
<1>6. d \in Resource
  BY <1>2, <1>5 DEF Resource
<1>7. cr' = d
  BY <1>1, <1>3, <1>4, <1>5
<1>8. inputs' \in Nat
  BY TypeSplit DEF TInv, UserEdits
<1> QED BY <1>6, <1>7, <1>8 DEF UserEdits, Undisturbed

LEMMA UserDeletesNext ==
  ASSUME TInv, UserDeletes
  PROVE  /\ Live /\ UNCHANGED <<env, inputs, thr, img, entry>>
         /\ cr' \in Resource /\ cr'.exists /\ cr'.deleting /\ cr'.external = cr.external
         /\ cr'.gen = cr.gen /\ cr'.handled = cr.handled /\ cr'.phase = cr.phase /\ cr'.id = cr.id
<1>1. PICK c \in Resource : c = cr
  BY TypeSplit DEF TInv
<1>2. PICK d : d = [c EXCEPT !.deleting = TRUE]
  OBVIOUS
<1>3. /\ d \in Resource /\ d.exists = c.exists /\ d.deleting /\ d.external = c.external
      /\ d.gen = c.gen /\ d.handled = c.handled /\ d.phase = c.phase /\ d.id = c.id
  BY <1>2 DEF Resource
<1> QED BY <1>1, <1>2, <1>3 DEF UserDeletes, Live

LEMMA TimePassesNext ==
  ASSUME TInv, TimePasses
  PROVE  /\ UNCHANGED <<env, inputs, thr, img, entry>>
         /\ Updates /\ cr'.handled = cr.handled /\ cr'.phase = cr.phase /\ cr'.id = cr.id
<1>1. PICK c \in Resource : c = cr
  BY TypeSplit DEF TInv
<1>2. PICK d : d = [c EXCEPT !.started = "old"]
  OBVIOUS
<1>3. /\ d \in Resource /\ d.exists = c.exists /\ d.deleting = c.deleting
      /\ d.external = c.external /\ d.gen = c.gen /\ d.handled = c.handled
      /\ d.phase = c.phase /\ d.id = c.id
  BY <1>2 DEF Resource
<1> QED BY <1>1, <1>2, <1>3 DEF TimePasses, Updates

LEMMA GlanceImportsNext ==
  ASSUME TInv, NEW i \in Images, GlanceImports(i)
  PROVE  /\ UNCHANGED <<env, inputs, cr, thr, entry>>
         /\ img' \in [Images -> Picture] /\ \A j \in Images \ {i} : img'[j] = img[j]
         /\ img[i].status \in {"queued", "importing"}
         /\ img'[i].status # "none" /\ img'[i].ours = img[i].ours
<1>1. PICK s \in {"importing", "active", "killed"} : img' = [img EXCEPT ![i].status = s]
  BY DEF GlanceImports
<1>2. img[i].status \in {"queued", "importing"} /\ UNCHANGED <<env, inputs, cr, thr, entry>>
  BY DEF GlanceImports
<1>3. PICK w \in Picture : w = img[i]
  BY ImageTyped
<1>4. PICK v : v = [w EXCEPT !.status = s]
  OBVIOUS
<1>5. v \in Picture /\ v.status = s /\ v.ours = w.ours
  BY <1>4 DEF Picture
<1>6. img \in [Images -> Picture]
  BY TypeSplit DEF TInv
<1>7. img' = [img EXCEPT ![i] = v]
  BY <1>1, <1>3, <1>4, <1>6
<1> QED BY <1>2, <1>3, <1>5, <1>6, <1>7

LEMMA OthersUploadNext ==
  ASSUME TInv, NEW i \in Images, OthersUpload(i)
  PROVE  /\ ~Undisturbed /\ inputs' \in Nat /\ UNCHANGED <<env, cr, thr, entry>>
         /\ img' \in [Images -> Picture]
<1>1. PICK v : v = [status |-> "queued", ours |-> FALSE, requested |-> TRUE]
  OBVIOUS
<1>2. v \in Picture
  BY <1>1 DEF Picture
<1>3. img' = [img EXCEPT ![i] = v]
  BY <1>1 DEF OthersUpload
<1>4. img \in [Images -> Picture] /\ inputs \in Nat
  BY TypeSplit DEF TInv
<1>5. img' \in [Images -> Picture]
  BY <1>2, <1>3, <1>4
<1>6. ~Undisturbed
  BY DEF OthersUpload, Undisturbed
<1>7. inputs' \in Nat /\ UNCHANGED <<env, cr, thr, entry>>
  BY <1>4 DEF OthersUpload
<1> QED BY <1>5, <1>6, <1>7

LEMMA GcCollectNext ==
  ASSUME TInv, GcCollect
  PROVE  /\ ~cr.exists /\ UNCHANGED <<env, inputs, cr, thr>> /\ entry' = None
         /\ entry \in Images /\ Removes(entry)
BY RemoveRemoves, TypeSplit DEF GcCollect, TInv, MaybeImage

LEMMA RestartNext ==
  ASSUME TInv, OperatorRestart
  PROVE  /\ "crash" \in faults /\ UNCHANGED <<env, inputs, cr, img, entry>>
         /\ thr' \in [Threads -> Record] /\ \A t \in Threads : thr'[t].pc = "idle"
<1>1. PICK y \in Record : y = Idle /\ y.pc = "idle"
  BY Blank
<1>2. thr' = [t \in Threads |-> y]
  BY <1>1 DEF OperatorRestart
<1> QED BY <1>1, <1>2 DEF OperatorRestart

-----------------------------------------------------------------------------
(* The types are invariant. *)

LEMMA TypesLeft ==
  ASSUME TInv, NEW t \in Threads, Alone(t), Shape(t, thr'[t]),
         env' = env, inputs' = inputs, cr' \in Resource, img' \in [Images -> Picture],
         entry' \in MaybeImage
  PROVE  TInv'
<1>1. thr' \in [Threads -> Record] /\ \A u \in Threads : Shape(u, thr'[u])
  BY DEF TInv, Alone, Others
<1> QED BY <1>1, TypeSplit, TypeSplitNext DEF TInv

LEMMA TypesQuiet ==
  ASSUME TInv, UNCHANGED <<env, thr>>, inputs' \in Nat, cr' \in Resource,
         img' \in [Images -> Picture], entry' \in MaybeImage
  PROVE  TInv'
BY TypeSplit, TypeSplitNext DEF TInv

\* A thread that is resting, or that ends with an outcome of its own, is where it may be.
LEMMA RestShape ==
  ASSUME NEW t \in Threads, Rests(t)
  PROVE  Alone(t) /\ Shape(t, thr'[t])
BY DEF Rests, Shape, Places, Threads, Holding

LEMMA FinishShape ==
  ASSUME NEW t \in Threads, NEW id, NEW out \in Outcomes(t), Finishes(t, id, out),
         out \in {"ready", "importing"} => id \in Images,
         out = "retry" => thr[t].retries \in 0..2, out = "lost" => id = None
  PROVE  Alone(t) /\ Shape(t, thr'[t])
BY DEF Finishes, Goes, Shape, Places, Threads, Holding

LEMMA GoShape ==
  ASSUME NEW t \in Threads, NEW id, NEW pc \in Places(t) \ {"patch"}, Goes(t, pc, id) \/ Starts(t, pc, id),
         pc \in Holding => id \in Images,
         pc = "reap" => thr'[t].retries \in 1..3
  PROVE  Alone(t) /\ Shape(t, thr'[t])
BY DEF Goes, Starts, Shape

LEMMA RaiseShape ==
  ASSUME NEW t \in {"job", "recon"}, Raises(t)
  PROVE  Alone(t) /\ Shape(t, thr'[t])
BY RestShape, FinishShape DEF Raises, Outcomes, Threads

LEMMA StepCases ==
  ASSUME [Next]_vars
  PROVE  \/ UNCHANGED vars
         \/ UserCreates \/ UserEdits \/ UserDeletes \/ TimePasses
         \/ \E i \in Images : GlanceImports(i) \/ OthersUpload(i) \/ OthersDelete(i)
         \/ BeginCreate \/ BeginUpdate \/ BeginDelete \/ BeginPoll \/ BeginRecon
         \/ \E t \in Threads : \/ Find(t) \/ Adopt(t) \/ Create(t) \/ Import(t) \/ Check(t)
                              \/ Register(t) \/ FailCall(t)
         \/ Modify \/ Drop \/ Unregister \/ Release \/ PollImage \/ ReapImage \/ Drift
         \/ PatchJob \/ PatchPoll \/ PatchRecon \/ GcCollect \/ OperatorRestart
BY DEF Next, Operator, Job, Timers, Ensure

\* The poll has no part in ensure_image.
LEMMA EnsuringThreads ==
  ASSUME TInv, NEW t \in Threads, thr[t].pc \in Ensuring \cup {"modify"}
  PROVE  t \in {"job", "recon"}
<1>1. Shape(t, thr[t])
  BY ThreadTyped
<1> QED BY <1>1 DEF Shape, Places, Ensuring, Threads

LEMMA TypesStep == TInv /\ [Next]_vars => TInv'
<1> SUFFICES ASSUME TInv, [Next]_vars PROVE TInv'
  OBVIOUS
<1>0. /\ env \in Environments /\ inputs \in Nat /\ cr \in Resource
      /\ thr \in [Threads -> Record] /\ img \in [Images -> Picture] /\ entry \in MaybeImage
      /\ None \in MaybeImage /\ \A i \in Images : i \in MaybeImage
  BY TypeSplit DEF TInv, MaybeImage
<1>1. CASE UNCHANGED vars
  BY <1>0, <1>1, TypesQuiet DEF vars
<1>2. CASE UserCreates \/ UserEdits \/ UserDeletes \/ TimePasses
  BY <1>0, <1>2, UserCreatesNext, UserEditsNext, UserDeletesNext, TimePassesNext, TypesQuiet DEF Updates
<1>3. CASE \E i \in Images : GlanceImports(i) \/ OthersUpload(i) \/ OthersDelete(i)
  BY <1>0, <1>3, GlanceImportsNext, OthersUploadNext, RemoveRemoves, TypesQuiet DEF OthersDelete, Removes
<1>4. CASE BeginCreate \/ BeginUpdate \/ BeginDelete \/ BeginPoll \/ BeginRecon
  <2>1. /\ UNCHANGED <<env, inputs, cr, img, entry>>
        /\ \E t \in Threads : \E pc \in Places(t) \ {"patch", "reap"} : \E id \in MaybeImage :
             Starts(t, pc, id) /\ (pc \in Holding => id \in Images)
    BY <1>0, <1>4, BeginNext DEF Places, Threads, Holding, Ensuring
  <2> QED BY <1>0, <2>1, GoShape, TypesLeft
<1>5. ASSUME NEW t \in Threads, Find(t) PROVE TInv'
  <2>1. t \in {"job", "recon"}
    BY <1>5, EnsuringThreads, FindNext DEF Ensuring
  <2>2. Alone(t) /\ Shape(t, thr'[t])
    BY <1>5, <2>1, FindNext, GoShape, FinishShape, RestShape
       DEF Named, Places, Outcomes, Ensuring, Holding
  <2> QED BY <1>0, <1>5, <2>2, FindNext, TypesLeft
<1>6. ASSUME NEW t \in Threads, Adopt(t) PROVE TInv'
  <2>1. t \in {"job", "recon"}
    BY <1>6, EnsuringThreads, AdoptNext DEF Ensuring
  <2>2. Alone(t) /\ Shape(t, thr'[t])
    BY <1>6, <2>1, AdoptNext, GoShape, FinishShape, RaiseShape
       DEF Places, Outcomes, Ensuring, Holding
  <2> QED BY <1>0, <1>6, <2>2, AdoptNext, TypesLeft
<1>7. ASSUME NEW t \in Threads, Create(t) PROVE TInv'
  <2>1. t \in {"job", "recon"}
    BY <1>7, EnsuringThreads, CreateNext DEF Ensuring
  <2>2. Alone(t) /\ Shape(t, thr'[t]) /\ img' \in [Images -> Picture]
    BY <1>7, <2>1, CreateNext, GoShape DEF Places, Ensuring, Holding
  <2> QED BY <1>0, <1>7, <2>2, CreateNext, TypesLeft
<1>8. ASSUME NEW t \in Threads, Import(t) PROVE TInv'
  <2>1. t \in {"job", "recon"}
    BY <1>8, EnsuringThreads, ImportNext DEF Ensuring
  <2>2. Alone(t) /\ Shape(t, thr'[t]) /\ img' \in [Images -> Picture]
    BY <1>0, <1>8, <2>1, ImportNext, GoShape, RaiseShape DEF Requests, Places, Ensuring, Holding
  <2> QED BY <1>0, <1>8, <2>2, ImportNext, TypesLeft
<1>9. ASSUME NEW t \in Threads, Check(t) PROVE TInv'
  <2>1. t \in {"job", "recon"}
    BY <1>9, EnsuringThreads, CheckNext DEF Ensuring
  <2>2. Alone(t) /\ Shape(t, thr'[t])
    BY <1>9, <2>1, CheckNext, GoShape DEF Places, Ensuring, Holding
  <2> QED BY <1>0, <1>9, <2>2, CheckNext, TypesLeft
<1>10. ASSUME NEW t \in Threads, Register(t) PROVE TInv'
  <2>1. t \in {"job", "recon"}
    BY <1>10, EnsuringThreads, RegisterNext DEF Ensuring
  <2>2. Alone(t) /\ Shape(t, thr'[t])
    BY <1>10, <2>1, RegisterNext, FinishShape DEF Outcomes
  <2> QED BY <1>0, <1>10, <2>2, RegisterNext, TypesLeft
<1>11. ASSUME NEW t \in Threads, FailCall(t) PROVE TInv'
  <2>1. Alone(t) /\ Shape(t, thr'[t])
    BY <1>11, FailCallNext, EnsuringThreads, RaiseShape, RestShape
  <2> QED BY <1>0, <1>11, <2>1, FailCallNext, TypesLeft
<1>12. CASE Modify \/ Drop \/ Unregister \/ Release
  <2>1. Alone("job") /\ Shape("job", thr'["job"])
    BY <1>12, ModifyNext, DropNext, UnregisterNext, ReleaseNext, ThreadNames, GoShape, FinishShape,
       RestShape, RaiseShape DEF Places, Outcomes, Ensuring, Holding
  <2> QED BY <1>0, <1>12, <2>1, ModifyNext, DropNext, UnregisterNext, ReleaseNext, ThreadNames,
             TypesLeft DEF Removes
<1>13. CASE PollImage \/ ReapImage
  <2>1. Alone("poll") /\ Shape("poll", thr'["poll"])
    <3>1. thr["poll"].pc = "reap" => thr["poll"].retries \in 1..3
      BY ThreadTyped, ThreadNames DEF Shape
    <3> QED BY <1>13, <3>1, PollImageNext, ReapImageNext, ThreadNames, GoShape, FinishShape, RestShape
            DEF Places, Outcomes, Holding
  <2> QED BY <1>0, <1>13, <2>1, PollImageNext, ReapImageNext, ThreadNames, TypesLeft DEF Removes
<1>14. CASE Drift
  <2>1. Alone("recon") /\ Shape("recon", thr'["recon"])
    BY <1>14, DriftNext, ThreadNames, FinishShape, RestShape DEF Outcomes
  <2> QED BY <1>0, <1>14, <2>1, DriftNext, ThreadNames, TypesLeft
<1>15. CASE PatchJob \/ PatchPoll \/ PatchRecon
  BY <1>0, <1>15, PatchJobNext, PatchPollNext, PatchReconNext, RestShape, ThreadNames, TypesLeft
     DEF Updates
<1>16. CASE GcCollect
  BY <1>0, <1>16, GcCollectNext, TypesQuiet DEF Removes
<1>17. CASE OperatorRestart
  <2>1. \A t \in Threads : Shape(t, thr'[t])
    BY <1>17, RestartNext DEF Shape, Places, Threads, Holding
  <2> QED BY <1>0, <1>17, <2>1, RestartNext, TypeSplitNext DEF TInv
<1> QED BY <1>1, <1>2, <1>3, <1>4, <1>5, <1>6, <1>7, <1>8, <1>9, <1>10, <1>11, <1>12, <1>13,
           <1>14, <1>15, <1>16, <1>17, StepCases

LEMMA TypesInit == Init => TInv
<1> SUFFICES ASSUME Init PROVE TInv
  OBVIOUS
<1>1. PICK y \in Record : y = Idle /\ y.pc = "idle"
  BY Blank
<1>2. thr = [t \in Threads |-> y]
  BY <1>1 DEF Init
<1>3. thr \in [Threads -> Record] /\ \A t \in Threads : Shape(t, thr[t])
  BY <1>1, <1>2 DEF Shape, Places, Threads, Holding
<1>4. PICK c : c = AbsentCR
  OBVIOUS
<1>5. c \in Resource
  BY <1>4 DEF AbsentCR, Resource, Phases, MaybeImage
<1>6. PICK w : w = NoImage
  OBVIOUS
<1>7. w \in Picture
  BY <1>6 DEF NoImage, Picture
<1>8. img \in [Images -> Picture]
  BY <1>6, <1>7 DEF Init
<1>9. env \in Environments /\ inputs \in Nat /\ cr \in Resource /\ entry \in MaybeImage
  BY <1>4, <1>5 DEF Init, MaybeImage
<1> QED BY <1>3, <1>8, <1>9, TypeSplit DEF TInv

LEMMA TypesAlways == Spec => []TInv
BY TypesInit, TypesStep, PTL DEF Spec

\* Every variable holds a value of its type; no more than three stuck imports are retried
\* (reconcile_image and poll_image_status count them in status.importRetries).
THEOREM TypesHold == Spec => []TypeOK
<1>1. TInv => TypeOK
  BY DEF TInv
<1> QED BY <1>1, TypesAlways, PTL

-----------------------------------------------------------------------------
(* A CR that nobody edits: its threads are about the CR as it was created. *)

Busy(t) == thr[t].pc # "idle"
At(t, pcs) == thr[t].pc \in pcs
Ends(t, outs) == thr[t].pc = "patch" /\ thr[t].out \in outs

ThreadsInv ==
  /\ cr.deleting => cr.exists
  /\ cr.exists => cr.gen = 1
  /\ \A t \in Threads : Busy(t) => cr.exists /\ thr[t].external = cr.external /\ thr[t].gen = 1
  /\ At("job", {"drop", "unregister", "release"}) => cr.deleting
  /\ At("job", {"drop", "unregister"}) => ~cr.external
  /\ ~At("job", {"modify"})
  /\ Ends("job", {"error"}) => thr["job"].id = None

\* What a step of t leaves to prove of it.
LEMMA ThreadsLeft ==
  ASSUME ThreadsInv, NEW t \in Threads, Alone(t),
         cr'.exists = cr.exists, cr'.gen = cr.gen, cr'.external = cr.external,
         cr'.deleting = cr.deleting,
         thr'[t].pc # "idle" =>
           cr.exists /\ thr'[t].external = cr.external /\ thr'[t].gen = 1,
         t = "job" =>
           /\ thr'[t].pc \in {"drop", "unregister", "release"} => cr.deleting
           /\ thr'[t].pc \in {"drop", "unregister"} => ~cr.external
           /\ thr'[t].pc # "modify"
           /\ thr'[t].pc = "patch" /\ thr'[t].out = "error" => thr'[t].id = None
  PROVE  ThreadsInv'
BY DEF ThreadsInv, Busy, At, Ends, Alone, Others, Threads

LEMMA ThreadsQuiet ==
  ASSUME ThreadsInv, UNCHANGED thr, cr'.exists = cr.exists, cr'.gen = cr.gen,
         cr'.external = cr.external, cr.deleting => cr'.deleting, cr'.deleting => cr'.exists
  PROVE  ThreadsInv'
BY DEF ThreadsInv, Busy, At, Ends

\* A busy thread that goes on.
LEMMA ThreadsGo ==
  ASSUME ThreadsInv, NEW t \in Threads, thr[t].pc # "idle", UNCHANGED cr,
         \/ \E pc \in Pcs, id \in MaybeImage :
              /\ Goes(t, pc, id)
              /\ pc \notin {"drop", "unregister", "release", "modify", "patch"}
         \/ \E out \in Outs, id \in MaybeImage :
              Finishes(t, id, out) /\ (t = "job" /\ out = "error" => id = None)
         \/ Rests(t)
         \/ Raises(t)
  PROVE  ThreadsInv'
<1>1. /\ cr.exists /\ thr[t].external = cr.external /\ thr[t].gen = 1
      /\ t = "job" => thr[t].pc # "modify"
  BY DEF ThreadsInv, Busy, At
<1>2. CASE \E pc \in Pcs, id \in MaybeImage :
             /\ Goes(t, pc, id)
             /\ pc \notin {"drop", "unregister", "release", "modify", "patch"}
  BY <1>1, <1>2, ThreadsLeft DEF Goes
<1>3. ASSUME NEW out \in Outs, NEW id \in MaybeImage, Finishes(t, id, out),
             t = "job" /\ out = "error" => id = None
      PROVE  ThreadsInv'
  BY <1>1, <1>3, ThreadsLeft DEF Finishes, Goes
<1>4. CASE Rests(t)
  BY <1>1, <1>4, ThreadsLeft DEF Rests
<1>5. "error" \in Outs
  BY DEF Outs
<1>6. CASE Raises(t)
  BY <1>1, <1>3, <1>4, <1>5, <1>6 DEF Raises
<1> QED BY <1>2, <1>3, <1>4, <1>6

LEMMA ThreadsStep ==
  ASSUME TInv, Undisturbed, ThreadsInv, [Next]_vars
  PROVE  ThreadsInv'
<1>0. /\ None \in MaybeImage /\ \A i \in Images : i \in MaybeImage
      /\ cr.handled \in Nat
      /\ \A t \in Threads : thr[t].id \in MaybeImage
  BY TypeSplit DEF TInv, MaybeImage, Record, Resource
<1>1. CASE UNCHANGED vars
  BY <1>1, ThreadsQuiet DEF vars, ThreadsInv
<1>2. CASE UserCreates
  BY <1>2, UserCreatesNext DEF ThreadsInv, Busy, At, Ends, Threads
<1>3. CASE UserEdits
  BY <1>3, UserEditsNext
<1>4. CASE UserDeletes \/ TimePasses
  BY <1>4, UserDeletesNext, TimePassesNext, ThreadsQuiet DEF Updates, Live, ThreadsInv
<1>5. CASE \E i \in Images : GlanceImports(i) \/ OthersUpload(i) \/ OthersDelete(i)
  BY <1>5, GlanceImportsNext, OthersUploadNext, ThreadsQuiet DEF OthersDelete, ThreadsInv
<1>6. CASE BeginCreate \/ BeginUpdate \/ BeginDelete \/ BeginPoll \/ BeginRecon
  <2>1. Live => cr.gen = 1 /\ cr.exists
    BY DEF Live, ThreadsInv
  <2>2. cr.deleting => cr.exists
    BY DEF ThreadsInv
  <2>3. /\ UNCHANGED cr
        /\ \E t \in Threads : \E pc \in {"find", "release", "drop", "look", "drift"} : \E id \in MaybeImage :
             /\ Starts(t, pc, id) /\ cr.exists
             /\ pc \in {"drop", "release"} => cr.deleting
             /\ pc = "drop" => ~cr.external
    <3>1. ~(Live /\ 0 < cr.handled /\ cr.handled < cr.gen)
      BY <1>0, <2>1
    <3> QED BY <1>0, <1>6, <2>1, <2>2, <3>1, BeginNext, ThreadNames
  <2>4. cr.gen = 1
    BY <2>3 DEF ThreadsInv
  <2> QED BY <2>3, <2>4, ThreadsLeft DEF Starts
<1>7. ASSUME NEW t \in Threads,
             Find(t) \/ Adopt(t) \/ Create(t) \/ Import(t) \/ Check(t) \/ Register(t) \/ FailCall(t)
      PROVE ThreadsInv'
  <2>1. thr[t].pc # "idle" /\ UNCHANGED cr
    BY <1>7, FindNext, AdoptNext, CreateNext, ImportNext, CheckNext, RegisterNext, FailCallNext
  <2>2. \/ \E pc \in {"adopt", "create", "import", "check", "register"}, id \in MaybeImage :
             Goes(t, pc, id)
        \/ \E out \in {"notfound", "ready", "importing"}, id \in MaybeImage : Finishes(t, id, out)
        \/ Rests(t)
        \/ Raises(t)
    BY <1>0, <1>7, FindNext, AdoptNext, CreateNext, ImportNext, CheckNext, RegisterNext, FailCallNext
       DEF Named
  <2> QED BY <2>1, <2>2, ThreadsGo DEF Pcs, Ensuring, Outs
<1>8. CASE Modify
  BY <1>8, ModifyNext DEF ThreadsInv, At
<1>9. CASE Drop \/ Unregister
  BY <1>9, DropNext, UnregisterNext, ThreadsLeft, ThreadNames DEF Goes, ThreadsInv, Busy, At
<1>10. CASE Release
  BY <1>10, ReleaseNext DEF ThreadsInv, Busy, At, Ends, Threads, Rests, Alone, Others
<1>11. CASE PollImage \/ ReapImage
  <2>1. thr["poll"].pc # "idle" /\ UNCHANGED cr
    BY <1>11, PollImageNext, ReapImageNext
  <2>2. \/ \E id \in MaybeImage : Goes("poll", "reap", id)
        \/ \E out \in {"lost", "active", "failed", "start", "retry"}, id \in MaybeImage :
              Finishes("poll", id, out)
        \/ Rests("poll")
    BY <1>0, <1>11, PollImageNext, ReapImageNext
  <2> QED BY <2>1, <2>2, ThreadsGo, ThreadNames DEF Pcs, Outs
<1>12. CASE Drift
  BY <1>0, <1>12, DriftNext, ThreadsGo, ThreadNames DEF Named, Outs
<1>13. CASE PatchJob \/ PatchPoll \/ PatchRecon
  BY <1>13, PatchJobNext, PatchPollNext, PatchReconNext, ThreadsLeft, ThreadNames
     DEF Rests, Updates
<1>14. CASE GcCollect
  BY <1>14, GcCollectNext, ThreadsQuiet DEF ThreadsInv
<1>15. CASE OperatorRestart
  BY <1>15, RestartNext DEF ThreadsInv, Busy, At, Ends, Threads
<1> QED BY <1>1, <1>2, <1>3, <1>4, <1>5, <1>6, <1>7, <1>8, <1>9, <1>10, <1>11, <1>12, <1>13,
           <1>14, <1>15, StepCases

-----------------------------------------------------------------------------
(* Taking turns, and what the threads hold of the image. *)

Managed == cr.exists /\ ~cr.external
Only(i) == Named \subseteq {i}

\* One thread at a time is about the image: the handler until it is done, then the poll
\* while the image is imported, then reconcile_image.
TurnsInv ==
  Managed =>
    /\ cr.handled = 0 =>
         cr.phase \in {"new", "Error"} /\ cr.id = None /\ ~Busy("poll") /\ ~Busy("recon")
    /\ At("job", Ensuring \cup {"patch"}) => cr.handled = 0
    /\ ~Ends("job", {"notfound"})
    /\ cr.phase = "Pending" => cr.id = None
    /\ cr.phase \in {"Provisioning", "Ready"} => cr.id # None
    /\ Busy("poll") => cr.phase = "Provisioning" /\ ~Busy("recon")
    /\ At("poll", {"look", "reap"}) \/ Ends("poll", {"active"}) => cr.id = thr["poll"].id
    /\ At("recon", Ensuring) \/ Ends("recon", {"ready", "importing", "error"}) => cr.phase = "Pending"
    /\ At("recon", {"drift"}) \/ Ends("recon", {"lost"}) => cr.phase = "Ready"
    /\ ~Ends("recon", {"mismatch"})
    /\ At("job", {"drop", "unregister"}) =>
         ~At("recon", Ensuring) /\ ~Ends("recon", {"ready", "importing"})

\* There is one image, the one the CR or a thread of it holds.
NamedInv ==
  /\ \A i \in Images : Exists(i) => img[i].ours
  /\ \A i, j \in Images : Exists(i) /\ Exists(j) => i = j
  /\ cr.exists /\ cr.external =>
       \A t \in Threads : ~At(t, {"create", "import", "check", "register"})
  /\ Managed =>
       /\ cr.id # None => Only(cr.id)
       /\ \A t \in {"job", "recon"} :
            /\ At(t, {"create"}) => Named = {}
            /\ At(t, {"adopt", "import", "check", "register"}) \/ Ends(t, {"ready", "importing"})
                 => Only(thr[t].id)
       /\ At("job", {"drop"}) => Only(thr["job"].id)
       /\ At("job", {"unregister"}) => Named = {}

\* What a step of t leaves to prove of it.
LEMMA TurnsLeft ==
  ASSUME TInv, TurnsInv, NEW t \in Threads, Alone(t), UNCHANGED cr,
         Managed /\ t = "job" =>
           /\ thr'[t].pc \in Ensuring \cup {"patch"} => cr.handled = 0
           /\ ~(thr'[t].pc = "patch" /\ thr'[t].out = "notfound")
           /\ thr'[t].pc \in {"drop", "unregister"} =>
                ~At("recon", Ensuring) /\ ~Ends("recon", {"ready", "importing"}),
         Managed /\ t = "poll" /\ thr'[t].pc # "idle" =>
           /\ cr.phase = "Provisioning" /\ ~Busy("recon")
           /\ thr'[t].pc \in {"look", "reap"} \/ (thr'[t].pc = "patch" /\ thr'[t].out = "active")
                => cr.id = thr'[t].id,
         Managed /\ t = "recon" /\ thr'[t].pc # "idle" =>
           /\ cr.handled # 0 /\ ~Busy("poll")
           /\ \/ /\ thr'[t].pc \in Ensuring
                    \/ (thr'[t].pc = "patch" /\ thr'[t].out \in {"ready", "importing", "error"})
                 /\ cr.phase = "Pending" /\ ~At("job", {"drop", "unregister"})
              \/ /\ thr'[t].pc = "drift" \/ (thr'[t].pc = "patch" /\ thr'[t].out = "lost")
                 /\ cr.phase = "Ready"
  PROVE  TurnsInv'
<1>1. Managed' <=> Managed
  BY DEF Managed
<1>2. CASE ~Managed
  BY <1>1, <1>2 DEF TurnsInv
<1>3. CASE Managed /\ t = "job"
  BY <1>1, <1>3 DEF TurnsInv, Busy, At, Ends, Alone, Others, Threads
<1>4. CASE Managed /\ t = "poll"
  BY <1>1, <1>4 DEF TurnsInv, Busy, At, Ends, Alone, Others, Threads
<1>5. CASE Managed /\ t = "recon"
  BY <1>1, <1>5 DEF TurnsInv, Busy, At, Ends, Alone, Others, Threads, Ensuring
<1> QED BY <1>2, <1>3, <1>4, <1>5 DEF Threads

LEMMA TurnsQuiet ==
  ASSUME TurnsInv, UNCHANGED thr, cr'.exists = cr.exists, cr'.external = cr.external,
         cr'.handled = cr.handled, cr'.phase = cr.phase, cr'.id = cr.id
  PROVE  TurnsInv'
BY DEF TurnsInv, Managed, Busy, At, Ends

\* A thread that goes on with ensure_image.
LEMMA TurnsGo ==
  ASSUME TInv, ThreadsInv, TurnsInv, NEW t \in {"job", "recon"}, thr[t].pc \in Ensuring, UNCHANGED cr,
         \/ \E pc \in Ensuring, id \in MaybeImage : Goes(t, pc, id)
         \/ \E out \in {"ready", "importing", "error"}, id \in MaybeImage : Finishes(t, id, out)
         \/ Rests(t)
  PROVE  TurnsInv'
<1>1. t \in Threads /\ Alone(t)
  BY DEF Threads, Goes, Finishes, Rests
<1>2. \/ thr'[t].pc \in Ensuring \/ thr'[t].pc = "idle"
      \/ thr'[t].pc = "patch" /\ thr'[t].out \in {"ready", "importing", "error"}
  BY DEF Goes, Finishes, Rests
<1>3. t = "job" /\ Managed => cr.handled = 0
  BY DEF TurnsInv, At
<1>4. t = "recon" /\ Managed =>
        cr.phase = "Pending" /\ cr.handled # 0 /\ ~Busy("poll") /\ ~At("job", {"drop", "unregister"})
  BY DEF TurnsInv, At, Busy, Ensuring
<1> QED BY <1>1, <1>2, <1>3, <1>4, TurnsLeft DEF Ensuring

LEMMA TurnsStep ==
  ASSUME TInv, Undisturbed, ThreadsInv, TurnsInv, NamedInv, [Next]_vars
  PROVE  TurnsInv'
<1>0. /\ None \in MaybeImage /\ \A i \in Images : i \in MaybeImage /\ i # None
      /\ cr.handled \in Nat /\ cr.id \in MaybeImage
      /\ \A t \in Threads : thr[t].id \in MaybeImage /\ Shape(t, thr[t])
  BY TypeSplit, ImageAssumption DEF TInv, MaybeImage, Record, Resource
<1>1. CASE UNCHANGED vars
  BY <1>1, TurnsQuiet DEF vars
<1>2. CASE UserCreates
  BY <1>2, UserCreatesNext DEF ThreadsInv, TurnsInv, Busy, At, Ends, Threads, Ensuring
<1>3. CASE UserEdits
  BY <1>3, UserEditsNext
<1>4. CASE UserDeletes \/ TimePasses
  BY <1>4, UserDeletesNext, TimePassesNext, TurnsQuiet DEF Updates, Live
<1>5. CASE \E i \in Images : GlanceImports(i) \/ OthersUpload(i) \/ OthersDelete(i)
  BY <1>5, GlanceImportsNext, OthersUploadNext, TurnsQuiet DEF OthersDelete
<1>6. CASE BeginCreate \/ BeginUpdate \/ BeginDelete \/ BeginPoll \/ BeginRecon
  <2>1. ~(Live /\ 0 < cr.handled /\ cr.handled < cr.gen)
    BY <1>0 DEF Live, ThreadsInv
  <2>2. CASE Live /\ cr.handled = 0 /\ Starts("job", "find", None) /\ UNCHANGED cr
    BY <2>2, TurnsLeft, ThreadNames DEF Starts, Ensuring
  <2>3. CASE cr.deleting /\ Starts("job", "release", None) /\ UNCHANGED cr
    BY <2>3, TurnsLeft, ThreadNames DEF Starts, Ensuring
  <2>4. CASE cr.id \in Images /\ Starts("job", "drop", cr.id) /\ UNCHANGED cr
    <3>1. Managed => ~At("recon", Ensuring) /\ ~Ends("recon", {"ready", "importing"})
      BY <1>0, <2>4 DEF TurnsInv, At, Ends
    <3> QED BY <2>4, <3>1, TurnsLeft, ThreadNames DEF Starts, Ensuring
  <2>5. CASE /\ cr.phase \in {"Provisioning", "Pending"} /\ cr.id \in Images
             /\ Starts("poll", "look", cr.id) /\ UNCHANGED cr
    <3>1. Managed => cr.phase = "Provisioning" /\ ~Busy("recon")
      <4>1. Managed => cr.phase = "Provisioning"
        BY <1>0, <2>5 DEF TurnsInv
      <4>2. Shape("recon", thr["recon"])
        BY <1>0, ThreadNames
      <4> QED BY <4>1, <4>2 DEF TurnsInv, Busy, At, Ends, Shape, Places, Outcomes
    <3> QED BY <2>5, <3>1, TurnsLeft, ThreadNames DEF Starts
  <2>6. CASE Live /\ cr.phase = "Pending" /\ Starts("recon", "find", None) /\ UNCHANGED cr
    <3>1. Managed => /\ cr.handled # 0 /\ ~Busy("poll") /\ ~At("job", {"drop", "unregister"})
      <4>1. Managed => cr.handled # 0 /\ ~Busy("poll")
        BY <2>6 DEF TurnsInv
      <4> QED BY <2>6, <4>1 DEF Live, ThreadsInv, At
    <3> QED BY <2>6, <3>1, TurnsLeft, ThreadNames DEF Starts, Ensuring
  <2>7. CASE cr.phase = "Ready" /\ Starts("recon", "drift", None) /\ UNCHANGED cr
    <3>1. Managed => cr.handled # 0 /\ ~Busy("poll")
      BY <2>7 DEF TurnsInv
    <3> QED BY <2>7, <3>1, TurnsLeft, ThreadNames DEF Starts, Ensuring
  <2> QED BY <1>6, <2>1, <2>2, <2>3, <2>4, <2>5, <2>6, <2>7, BeginNext
<1>7. ASSUME NEW t \in Threads,
             Find(t) \/ Adopt(t) \/ Create(t) \/ Import(t) \/ Check(t) \/ Register(t) \/ FailCall(t)
      PROVE TurnsInv'
  <2>1. UNCHANGED cr
    BY <1>7, FindNext, AdoptNext, CreateNext, ImportNext, CheckNext, RegisterNext, FailCallNext
  <2>2. CASE ~Managed
    BY <2>1, <2>2 DEF TurnsInv, Managed
  <2>3. CASE Managed /\ thr[t].pc \in Ensuring
    <3>1. t \in {"job", "recon"}
      BY <1>7, <2>3, EnsuringThreads
    <3>2. ~thr[t].external /\ thr[t].pc # "modify"
      BY <2>3 DEF Managed, ThreadsInv, Busy, Ensuring
    <3>3. \/ \E pc \in Ensuring, id \in MaybeImage : Goes(t, pc, id)
          \/ \E out \in {"ready", "importing", "error"}, id \in MaybeImage : Finishes(t, id, out)
          \/ Rests(t)
      BY <1>0, <1>7, <2>3, <3>2, FindNext, AdoptNext, CreateNext, ImportNext, CheckNext,
         RegisterNext, FailCallNext DEF Named, Ensuring, Raises
    <3> QED BY <2>1, <2>3, <3>1, <3>3, TurnsGo
  <2>4. CASE Managed /\ thr[t].pc \notin Ensuring
    <3>1. FailCall(t)
      BY <1>7, <2>4, FindNext, AdoptNext, CreateNext, ImportNext, CheckNext, RegisterNext DEF Ensuring
    <3>2. thr[t].pc # "modify"
      <4>1. t = "job" \/ thr[t].pc # "modify"
        BY <1>0 DEF Shape, Places, Ensuring, Threads
      <4> QED BY <4>1 DEF ThreadsInv, At
    <3>3. Rests(t)
      BY <2>4, <3>1, <3>2, FailCallNext
    <3> QED BY <2>1, <3>3, TurnsLeft DEF Rests, Ensuring
  <2> QED BY <2>2, <2>3, <2>4
<1>8. CASE Modify
  BY <1>8, ModifyNext DEF ThreadsInv, At
<1>9. CASE Drop \/ Unregister
  <2>1. /\ UNCHANGED cr /\ thr["job"].pc \in {"drop", "unregister"}
        /\ \E pc \in {"unregister", "release"} : Goes("job", pc, thr["job"].id)
    BY <1>9, DropNext, UnregisterNext
  <2>2. Managed => ~At("recon", Ensuring) /\ ~Ends("recon", {"ready", "importing"})
    BY <2>1 DEF TurnsInv, At
  <2> QED BY <2>1, <2>2, TurnsLeft, ThreadNames DEF Goes, Ensuring
<1>10. CASE Release
  BY <1>10, ReleaseNext DEF TurnsInv, Managed
<1>11. CASE PollImage \/ ReapImage
  <2>1. Busy("poll") /\ UNCHANGED cr /\ At("poll", {"look", "reap"})
    BY <1>11, PollImageNext, ReapImageNext DEF Busy, At
  <2>2. \/ Goes("poll", "reap", thr["poll"].id)
        \/ Finishes("poll", thr["poll"].id, "active")
        \/ \E out \in {"lost", "failed", "start", "retry"}, id \in MaybeImage :
              Finishes("poll", id, out)
        \/ Rests("poll")
    BY <1>0, <1>11, PollImageNext, ReapImageNext, ThreadNames
  <2>3. Managed => cr.phase = "Provisioning" /\ ~Busy("recon") /\ cr.id = thr["poll"].id
    BY <2>1 DEF TurnsInv
  <2> QED BY <2>1, <2>2, <2>3, TurnsLeft, ThreadNames DEF Goes, Finishes, Rests
<1>12. CASE Drift
  <2>1. At("recon", {"drift"}) /\ Busy("recon") /\ UNCHANGED cr
    BY <1>12, DriftNext DEF At, Busy
  <2>2. Managed => /\ cr.phase = "Ready" /\ cr.handled # 0 /\ ~Busy("poll")
                   /\ Named \ {cr.id} = {}
    BY <1>0, <2>1 DEF TurnsInv, NamedInv, Only
  <2>3. Finishes("recon", None, "lost") \/ Rests("recon") \/ (~Managed /\ Alone("recon"))
    BY <1>12, <2>2, DriftNext DEF Finishes, Goes
  <2> QED BY <2>1, <2>2, <2>3, TurnsLeft, ThreadNames DEF Finishes, Goes, Rests
<1>13. CASE PatchJob
  <2>1. /\ Managed' <=> Managed
        /\ thr["job"].pc = "patch" /\ thr'["job"].pc = "idle"
        /\ thr'["poll"] = thr["poll"] /\ thr'["recon"] = thr["recon"]
    BY <1>13, PatchJobNext DEF Updates, Managed, Rests, Alone, Others, Threads
  <2>2. SUFFICES ASSUME Managed PROVE TurnsInv'
    BY <2>1 DEF TurnsInv
  <2>3. /\ cr.handled = 0 /\ ~Busy("poll") /\ ~Busy("recon") /\ cr.id = None
        /\ ~Ends("job", {"notfound"}) /\ thr["job"].gen = 1
        /\ Ends("job", {"error"}) => thr["job"].id = None
    BY <2>1, <2>2, ThreadNames DEF TurnsInv, ThreadsInv, At, Busy
  <2>4. \/ cr'.phase \in {"Ready", "Provisioning"} /\ cr'.id # None /\ cr'.handled = 1
        \/ cr'.phase = "Error" /\ cr'.handled = 0 /\ cr'.id = None
    BY <1>0, <1>13, <2>1, <2>3, PatchJobNext DEF Ends
  <2> QED BY <2>1, <2>3, <2>4 DEF TurnsInv, Busy, At, Ends, Ensuring
<1>14. CASE PatchPoll
  <2>1. /\ Managed' <=> Managed
        /\ thr["poll"].pc = "patch" /\ thr'["poll"].pc = "idle"
        /\ thr'["job"] = thr["job"] /\ thr'["recon"] = thr["recon"]
    BY <1>14, PatchPollNext DEF Updates, Managed, Rests, Alone, Others, Threads
  <2>2. SUFFICES ASSUME Managed PROVE TurnsInv'
    BY <2>1 DEF TurnsInv
  <2>3. /\ cr.phase = "Provisioning" /\ cr.id # None /\ ~Busy("recon") /\ cr'.handled = cr.handled
        /\ cr.handled # 0
    BY <1>14, <2>1, <2>2, PatchPollNext DEF TurnsInv, Busy
  <2>4. \/ cr'.phase \in {"Ready", "Provisioning", "Error"} /\ cr'.id = cr.id
        \/ cr'.phase = "Pending" /\ cr'.id = None
    BY <1>14, <2>3, PatchPollNext
  <2> QED BY <2>1, <2>2, <2>3, <2>4 DEF TurnsInv, Busy, At, Ends, Ensuring
<1>15. CASE PatchRecon
  <2>1. /\ Managed' <=> Managed
        /\ thr["recon"].pc = "patch" /\ thr'["recon"].pc = "idle"
        /\ thr'["job"] = thr["job"] /\ thr'["poll"] = thr["poll"]
    BY <1>15, PatchReconNext DEF Updates, Managed, Rests, Alone, Others, Threads
  <2>2. SUFFICES ASSUME Managed PROVE TurnsInv'
    BY <2>1 DEF TurnsInv
  <2>3. /\ cr.handled # 0 /\ ~Busy("poll") /\ cr'.handled = cr.handled
        /\ ~Ends("recon", {"mismatch"})
        /\ Ends("recon", {"error"}) => cr.id = None
    BY <1>15, <2>1, <2>2, PatchReconNext DEF TurnsInv, Busy, Ends
  <2>4. \/ cr'.phase \in {"Ready", "Provisioning"} /\ cr'.id # None
        \/ cr'.phase = "Error"
        \/ cr'.phase = "Pending" /\ cr'.id = None
    BY <1>0, <1>15, <2>1, <2>3, PatchReconNext, ThreadNames DEF Ends, Shape
  <2> QED BY <2>1, <2>2, <2>3, <2>4 DEF TurnsInv, Busy, At, Ends, Ensuring
<1>16. CASE GcCollect
  BY <1>16, GcCollectNext, TurnsQuiet
<1>17. CASE OperatorRestart
  BY <1>17, RestartNext DEF TurnsInv, Managed, Busy, At, Ends, Threads, Ensuring
<1> QED BY <1>1, <1>2, <1>3, <1>4, <1>5, <1>6, <1>7, <1>8, <1>9, <1>10, <1>11, <1>12, <1>13,
           <1>14, <1>15, <1>16, <1>17, StepCases

-----------------------------------------------------------------------------
(* One image. *)

\* No image comes to be.
Fewer ==
  \A i \in Images : img'[i].status # "none" => img[i].status # "none" /\ img'[i].ours = img[i].ours

\* What a step of t that makes no image leaves to prove of it.
LEMMA NamedLeft ==
  ASSUME NamedInv, NEW t \in Threads, Alone(t), Fewer,
         cr'.exists = cr.exists, cr'.external = cr.external,
         cr.exists /\ cr.external => thr'[t].pc \notin {"create", "import", "check", "register"},
         Managed =>
           /\ cr'.id \in {None, cr.id} \/ Only(cr'.id)
           /\ t \in {"job", "recon"} =>
                /\ thr'[t].pc = "create" => Named = {}
                /\ thr'[t].pc \in {"adopt", "import", "check", "register"}
                     \/ (thr'[t].pc = "patch" /\ thr'[t].out \in {"ready", "importing"})
                       => Only(thr'[t].id)
           /\ t = "job" =>
                /\ thr'[t].pc = "drop" => Only(thr'[t].id)
                /\ thr'[t].pc = "unregister" => Named' = {}
  PROVE  NamedInv'
<1>1. /\ Managed' <=> Managed
      /\ Named' \subseteq Named
  BY DEF Managed, Named, Exists, Fewer
<1>2. \A u \in Threads : u # t => thr'[u] = thr[u]
  BY DEF Alone, Others
<1>3. \A i \in Images : (img'[i].status # "none") => img[i].status # "none" /\ img'[i].ours = img[i].ours
  BY DEF Fewer
<1>4. /\ \A i \in Images : Exists(i)' => img'[i].ours
      /\ \A i, j \in Images : Exists(i)' /\ Exists(j)' => i = j
  BY <1>3 DEF NamedInv, Exists
<1>5. cr'.exists /\ cr'.external =>
        \A u \in Threads : thr'[u].pc \notin {"create", "import", "check", "register"}
  BY <1>2 DEF NamedInv, At
<1>6. ASSUME Managed
      PROVE  /\ cr'.id # None => Named' \subseteq {cr'.id}
             /\ \A u \in {"job", "recon"} :
                  /\ thr'[u].pc = "create" => Named' = {}
                  /\ thr'[u].pc \in {"adopt", "import", "check", "register"}
                       \/ (thr'[u].pc = "patch" /\ thr'[u].out \in {"ready", "importing"})
                         => Named' \subseteq {thr'[u].id}
             /\ thr'["job"].pc = "drop" => Named' \subseteq {thr'["job"].id}
             /\ thr'["job"].pc = "unregister" => Named' = {}
  <2>1. /\ cr.id # None => Named \subseteq {cr.id}
        /\ \A u \in {"job", "recon"} :
             /\ thr[u].pc = "create" => Named = {}
             /\ thr[u].pc \in {"adopt", "import", "check", "register"}
                  \/ (thr[u].pc = "patch" /\ thr[u].out \in {"ready", "importing"})
                    => Named \subseteq {thr[u].id}
        /\ thr["job"].pc = "drop" => Named \subseteq {thr["job"].id}
        /\ thr["job"].pc = "unregister" => Named = {}
    BY <1>6 DEF NamedInv, At, Ends, Only
  <2>2. cr'.id # None => Named' \subseteq {cr'.id}
    BY <1>1, <1>6, <2>1 DEF Only
  <2>3. ASSUME NEW u \in {"job", "recon"}
        PROVE  /\ thr'[u].pc = "create" => Named' = {}
               /\ thr'[u].pc \in {"adopt", "import", "check", "register"}
                    \/ (thr'[u].pc = "patch" /\ thr'[u].out \in {"ready", "importing"})
                      => Named' \subseteq {thr'[u].id}
    BY <1>1, <1>2, <1>6, <2>1 DEF Only, Threads
  <2>4. /\ thr'["job"].pc = "drop" => Named' \subseteq {thr'["job"].id}
        /\ thr'["job"].pc = "unregister" => Named' = {}
    BY <1>1, <1>2, <1>6, <2>1, ThreadNames DEF Only
  <2> QED BY <2>2, <2>3, <2>4
<1> QED BY <1>1, <1>4, <1>5, <1>6 DEF NamedInv, At, Ends, Only

LEMMA NamedQuiet ==
  ASSUME NamedInv, UNCHANGED thr, Fewer, cr'.exists => cr.exists, cr'.external = cr.external,
         cr'.id = cr.id
  PROVE  NamedInv'
<1>1. Managed' => Managed
  BY DEF Managed
<1>2. Named' \subseteq Named
  BY DEF Named, Exists, Fewer
<1>3. /\ \A i \in Images : Exists(i)' => img'[i].ours
      /\ \A i, j \in Images : Exists(i)' /\ Exists(j)' => i = j
  BY DEF Fewer, NamedInv, Exists
<1>4. cr'.exists /\ cr'.external =>
        \A u \in Threads : thr'[u].pc \notin {"create", "import", "check", "register"}
  BY DEF NamedInv, At
<1>5. ASSUME Managed'
      PROVE  /\ cr'.id # None => Named' \subseteq {cr'.id}
             /\ \A u \in {"job", "recon"} :
                  /\ thr'[u].pc = "create" => Named' = {}
                  /\ thr'[u].pc \in {"adopt", "import", "check", "register"}
                       \/ (thr'[u].pc = "patch" /\ thr'[u].out \in {"ready", "importing"})
                         => Named' \subseteq {thr'[u].id}
             /\ thr'["job"].pc = "drop" => Named' \subseteq {thr'["job"].id}
             /\ thr'["job"].pc = "unregister" => Named' = {}
  BY <1>1, <1>2, <1>5 DEF NamedInv, At, Ends, Only
<1> QED BY <1>3, <1>4, <1>5 DEF NamedInv, At, Ends, Only

LEMMA NamedStep ==
  ASSUME TInv, Undisturbed, ThreadsInv, TurnsInv, NamedInv, [Next]_vars
  PROVE  NamedInv'
<1>0. /\ None \in MaybeImage /\ \A i \in Images : i \in MaybeImage /\ i # None
      /\ cr.handled \in Nat /\ cr.id \in MaybeImage
      /\ \A t \in Threads : thr[t].id \in MaybeImage /\ Shape(t, thr[t])
  BY TypeSplit, ImageAssumption DEF TInv, MaybeImage, Record, Resource
<1>a. /\ UNCHANGED img => Fewer
      /\ \A i : Removes(i) => Fewer
      /\ \A i \in Images : Requests(i) => Fewer
  BY DEF Fewer, Removes, Requests
<1>b. \A i \in Named : Only(i)
  BY DEF Named, NamedInv, Only
<1>1. CASE UNCHANGED vars
  BY <1>1, <1>a, NamedQuiet DEF vars
<1>2. CASE UserCreates
  BY <1>2, UserCreatesNext DEF ThreadsInv, NamedInv, Managed, Named, Exists, Busy, At, Ends, Threads
<1>3. CASE UserEdits
  BY <1>3, UserEditsNext
<1>4. CASE UserDeletes \/ TimePasses
  BY <1>4, <1>a, UserDeletesNext, TimePassesNext, NamedQuiet DEF Updates, Live
<1>5. CASE \E i \in Images : GlanceImports(i) \/ OthersUpload(i) \/ OthersDelete(i)
  <2>1. ASSUME NEW i \in Images, GlanceImports(i) PROVE NamedInv'
    <3>1. Fewer
      BY <2>1, GlanceImportsNext DEF Fewer
    <3> QED BY <2>1, <3>1, GlanceImportsNext, NamedQuiet
  <2>2. ASSUME NEW i \in Images, OthersDelete(i) PROVE NamedInv'
    BY <1>a, <2>2, RemoveRemoves, NamedQuiet DEF OthersDelete
  <2> QED BY <1>5, <2>1, <2>2, OthersUploadNext
<1>6. CASE BeginCreate \/ BeginUpdate \/ BeginDelete \/ BeginPoll \/ BeginRecon
  <2>1. ~(Live /\ 0 < cr.handled /\ cr.handled < cr.gen)
    BY <1>0 DEF Live, ThreadsInv
  <2>2. /\ UNCHANGED <<cr, img>>
        /\ \E t \in Threads : \E pc \in {"find", "release", "drop", "look", "drift"} : \E id \in MaybeImage :
             Starts(t, pc, id) /\ (pc = "drop" => id = cr.id /\ id # None)
    BY <1>0, <1>6, <2>1, BeginNext, ThreadNames
  <2>3. PICK t \in Threads, pc \in {"find", "release", "drop", "look", "drift"}, id \in MaybeImage :
          Starts(t, pc, id) /\ (pc = "drop" => id = cr.id /\ id # None)
    BY <2>2
  <2>4. Managed /\ pc = "drop" => Only(id)
    BY <2>3 DEF NamedInv
  <2>5. Alone(t) /\ thr'[t].pc = pc /\ thr'[t].id = id
    BY <2>3 DEF Starts
  <2> QED BY <1>a, <2>2, <2>4, <2>5, NamedLeft
<1>7. ASSUME NEW t \in Threads, Find(t) PROVE NamedInv'
  <2>1. t \in {"job", "recon"}
    BY <1>7, FindNext, EnsuringThreads DEF Ensuring
  <2>2. UNCHANGED <<cr, img>> /\ (cr.exists /\ cr.external => thr[t].external)
    BY <1>7, FindNext DEF ThreadsInv, Busy
  <2>3. \/ \E i \in Named : Goes(t, "adopt", i)
        \/ Named = {} /\ ~thr[t].external /\ Goes(t, "create", thr[t].id)
        \/ Finishes(t, None, "notfound") \/ Rests(t)
    BY <1>7, FindNext
  <2>4. /\ Alone(t) /\ thr'[t].pc \in {"adopt", "create", "patch", "idle"}
        /\ thr'[t].pc = "adopt" => Only(thr'[t].id)
        /\ thr'[t].pc = "create" => Named = {} /\ ~thr[t].external
        /\ thr'[t].pc = "patch" => thr'[t].out = "notfound"
    BY <1>b, <2>3 DEF Goes, Finishes, Rests
  <2> QED BY <1>a, <2>1, <2>2, <2>4, NamedLeft
<1>8. ASSUME NEW t \in Threads, Adopt(t) PROVE NamedInv'
  <2>1. UNCHANGED <<cr, img>> /\ (cr.exists /\ cr.external => thr[t].external)
    BY <1>8, AdoptNext DEF ThreadsInv, Busy
  <2>2. /\ Alone(t) /\ thr'[t].pc \in {"register", "patch", "idle"}
        /\ thr'[t].pc = "register" => ~thr[t].external /\ thr'[t].id = thr[t].id
        /\ thr'[t].pc = "patch" => thr'[t].out = "error" \/ thr'[t].id = thr[t].id
    BY <1>8, AdoptNext DEF Goes, Finishes, Rests, Raises
  <2>3. Managed /\ t \in {"job", "recon"} => Only(thr[t].id)
    BY <1>8, AdoptNext DEF NamedInv, At
  <2> QED BY <1>a, <2>1, <2>2, <2>3, NamedLeft
<1>9. ASSUME NEW t \in Threads, Create(t) PROVE NamedInv'
  <2>1. t \in {"job", "recon"}
    BY <1>9, CreateNext, EnsuringThreads DEF Ensuring
  <2>2. thr[t].pc = "create" /\ Managed /\ Named = {} /\ UNCHANGED cr
    BY <1>9, <2>1, CreateNext DEF NamedInv, ThreadsInv, Managed, At, Busy
  <2>3. PICK i \in Images :
          /\ Goes(t, "import", i) /\ \A j \in Images \ {i} : img'[j] = img[j]
          /\ img'[i].status = "queued" /\ img'[i].ours
    BY <1>9, CreateNext
  <2>4. \A j \in Images : img'[j].status # "none" <=> j = i
    BY <2>2, <2>3 DEF Named, Exists
  <2>5. cr.id = None
    <3>1. t = "job" => cr.id = None
      BY <2>2 DEF TurnsInv, At, Ensuring
    <3>2. t = "recon" => cr.id = None
      BY <2>2 DEF TurnsInv, At, Ensuring
    <3> QED BY <2>1, <3>1, <3>2
  <2>6. ASSUME NEW u \in {"job", "recon"}, u # t
        PROVE  /\ thr'[u].pc \notin Ensuring /\ thr'[u].pc # "drop" /\ thr'[u].pc # "unregister"
               /\ ~(thr'[u].pc = "patch" /\ thr'[u].out \in {"ready", "importing"})
    <3>1. thr'[u] = thr[u]
      BY <2>3, <2>6 DEF Goes, Alone, Others, Threads
    <3>2. CASE t = "job" /\ u = "recon"
      BY <2>2, <3>1, <3>2 DEF TurnsInv, At, Busy, Ensuring
    <3>3. CASE t = "recon" /\ u = "job"
      BY <2>2, <3>1, <3>3 DEF TurnsInv, At, Busy, Ends, Ensuring
    <3> QED BY <2>1, <2>6, <3>2, <3>3
  <2>7. thr'[t].pc = "import" /\ thr'[t].id = i
    BY <2>3 DEF Goes
  <2>8. Named' = {i}
    BY <2>4 DEF Named, Exists
  <2>9. /\ \A j \in Images : Exists(j)' => img'[j].ours
        /\ \A j, k \in Images : Exists(j)' /\ Exists(k)' => j = k
    BY <2>3, <2>4 DEF Exists
  <2>10. \A u \in {"job", "recon"} :
           /\ thr'[u].pc = "create" => Named' = {}
           /\ thr'[u].pc \in {"adopt", "import", "check", "register"}
                \/ (thr'[u].pc = "patch" /\ thr'[u].out \in {"ready", "importing"})
                  => Named' \subseteq {thr'[u].id}
    BY <2>6, <2>7, <2>8 DEF Ensuring
  <2>11. thr'["job"].pc # "drop" /\ thr'["job"].pc # "unregister"
    BY <2>1, <2>6, <2>7
  <2> QED BY <2>2, <2>5, <2>9, <2>10, <2>11 DEF NamedInv, Managed, At, Ends, Only
<1>10. ASSUME NEW t \in Threads, Import(t) PROVE NamedInv'
  <2>1. UNCHANGED cr /\ Fewer
    BY <1>a, <1>10, ImportNext
  <2>2. /\ Alone(t) /\ thr'[t].pc \in {"check", "patch", "idle"}
        /\ thr'[t].pc = "check" => thr'[t].id = thr[t].id
        /\ thr'[t].pc = "patch" => thr'[t].out = "error"
    BY <1>10, ImportNext DEF Goes, Finishes, Rests, Raises
  <2>3. /\ Managed /\ t \in {"job", "recon"} => Only(thr[t].id)
        /\ ~(cr.exists /\ cr.external)
    BY <1>10, ImportNext DEF NamedInv, At
  <2> QED BY <2>1, <2>2, <2>3, NamedLeft
<1>11. ASSUME NEW t \in Threads, Check(t) \/ Register(t) PROVE NamedInv'
  <2>1. UNCHANGED cr /\ Fewer
    BY <1>a, <1>11, CheckNext, RegisterNext
  <2>2. /\ Alone(t) /\ thr'[t].pc \in {"register", "patch"} /\ thr'[t].id = thr[t].id
    BY <1>11, CheckNext, RegisterNext DEF Goes, Finishes
  <2>3. /\ Managed /\ t \in {"job", "recon"} => Only(thr[t].id)
        /\ ~(cr.exists /\ cr.external)
    BY <1>11, CheckNext, RegisterNext DEF NamedInv, At
  <2> QED BY <2>1, <2>2, <2>3, NamedLeft
<1>12. ASSUME NEW t \in Threads, FailCall(t) PROVE NamedInv'
  <2>1. /\ Alone(t) /\ thr'[t].pc \in {"patch", "idle"}
        /\ thr'[t].pc = "patch" => thr'[t].out = "error"
    BY <1>12, FailCallNext DEF Goes, Finishes, Rests, Raises
  <2>2. UNCHANGED cr /\ Fewer
    BY <1>a, <1>12, FailCallNext
  <2> QED BY <2>1, <2>2, NamedLeft
<1>13. CASE Modify
  BY <1>13, ModifyNext DEF ThreadsInv, At
<1>14. CASE Drop
  <2>1. /\ UNCHANGED cr /\ Alone("job") /\ thr'["job"].pc = "unregister"
        /\ Removes(thr["job"].id) /\ thr["job"].id \in Images
    BY <1>14, DropNext DEF Goes
  <2>2. Managed => Only(thr["job"].id)
    BY <1>14, DropNext DEF NamedInv, At
  <2>3. Managed => Named' = {}
    <3>1. ASSUME Managed, NEW i \in Images PROVE img'[i].status = "none"
      BY <2>1, <2>2, <3>1 DEF Only, Named, Exists, Removes
    <3> QED BY <3>1 DEF Named, Exists
  <2> QED BY <1>a, <2>1, <2>3, NamedLeft, ThreadNames
<1>15. CASE Unregister
  BY <1>15, <1>a, UnregisterNext, NamedLeft, ThreadNames DEF Goes
<1>16. CASE Release
  BY <1>16, ReleaseNext DEF NamedInv, Managed, Exists
<1>17. CASE PollImage \/ ReapImage
  BY <1>17, <1>a, PollImageNext, ReapImageNext, NamedLeft, ThreadNames DEF Goes, Finishes, Rests
<1>18. CASE Drift
  <2>1. /\ Alone("recon") /\ thr'["recon"].pc \in {"patch", "idle"}
        /\ thr'["recon"].pc = "patch" => thr'["recon"].out \in {"lost", "mismatch"}
        /\ UNCHANGED <<cr, img>>
    BY <1>18, DriftNext DEF Goes, Finishes, Rests
  <2> QED BY <1>a, <2>1, NamedLeft, ThreadNames
<1>19. CASE PatchJob
  <2>1. /\ Alone("job") /\ thr'["job"].pc = "idle" /\ UNCHANGED img
        /\ cr'.exists = cr.exists /\ cr'.external = cr.external
    BY <1>19, PatchJobNext DEF Rests, Updates
  <2>2. Managed => cr'.id = cr.id \/ Only(cr'.id)
    <3>1. /\ Managed /\ Ends("job", {"ready", "importing"}) => Only(thr["job"].id)
          /\ Managed => ~Ends("job", {"notfound"})
          /\ Ends("job", {"error"}) => thr["job"].id = None
      BY DEF NamedInv, TurnsInv, ThreadsInv
    <3> QED BY <1>19, <3>1, PatchJobNext DEF Ends
  <2> QED BY <1>a, <2>1, <2>2, NamedLeft, ThreadNames
<1>20. CASE PatchPoll
  BY <1>20, <1>a, PatchPollNext, NamedLeft, ThreadNames DEF Rests, Updates
<1>21. CASE PatchRecon
  <2>1. /\ Alone("recon") /\ thr'["recon"].pc = "idle" /\ UNCHANGED img
        /\ cr'.exists = cr.exists /\ cr'.external = cr.external
    BY <1>21, PatchReconNext DEF Rests, Updates
  <2>2. Managed => cr'.id \in {None, cr.id} \/ Only(cr'.id)
    <3>1. /\ Managed /\ Ends("recon", {"ready", "importing"}) => Only(thr["recon"].id)
          /\ Managed => ~Ends("recon", {"mismatch"})
          /\ Ends("recon", {"lost"}) => thr["recon"].id = None
      BY <1>0, ThreadNames DEF NamedInv, TurnsInv, Ends, Shape
    <3> QED BY <1>21, <3>1, PatchReconNext DEF Ends
  <2> QED BY <1>a, <2>1, <2>2, NamedLeft, ThreadNames
<1>22. CASE GcCollect
  BY <1>22, <1>a, GcCollectNext, NamedQuiet
<1>23. CASE OperatorRestart
  BY <1>23, RestartNext DEF NamedInv, Managed, Named, Exists, At, Ends, Threads, Only
<1> QED BY <1>1, <1>2, <1>3, <1>4, <1>5, <1>6, <1>7, <1>8, <1>9, <1>10, <1>11, <1>12, <1>13,
           <1>14, <1>15, <1>16, <1>17, <1>18, <1>19, <1>20, <1>21, <1>22, <1>23, StepCases

-----------------------------------------------------------------------------
(* What was seen active is active, or gone. *)

Complete(i) == img[i].status \in {"active", "none"}
StatusInv ==
  Managed =>
    /\ cr.phase = "Ready" => Complete(cr.id)
    /\ \A t \in {"job", "recon"} :
         (At(t, {"adopt", "register"}) /\ thr[t].status = "active") \/ Ends(t, {"ready"})
           => Complete(thr[t].id)
    /\ Ends("poll", {"active"}) => Complete(thr["poll"].id)

\* No image that is complete, or gone, comes to be incomplete.
Steady ==
  \A i \in Images : img[i].status \in {"active", "none"} => img'[i].status \in {"active", "none"}

LEMMA StatusLeft ==
  ASSUME TInv, ThreadsInv, TurnsInv, StatusInv, Steady, NEW t \in Threads, Alone(t),
         cr'.exists = cr.exists, cr'.external = cr.external,
         Managed =>
           /\ cr'.phase = "Ready" =>
                \/ cr.phase = "Ready" /\ cr'.id = cr.id
                \/ cr'.id \in Images /\ Complete(cr'.id)
           /\ (thr'[t].pc \in {"adopt", "register"} /\ thr'[t].status = "active")
                \/ (thr'[t].pc = "patch" /\ thr'[t].out \in {"ready", "active"})
                  => thr'[t].id \in Images /\ Complete(thr'[t].id)
  PROVE  StatusInv'
<1>1. Managed' <=> Managed
  BY DEF Managed
<1>2. SUFFICES ASSUME Managed PROVE StatusInv'
  BY <1>1 DEF StatusInv
<1>3. \A i \in Images : Complete(i) => img'[i].status \in {"active", "none"}
  BY DEF Steady, Complete
<1>4. cr'.phase = "Ready" => img'[cr'.id].status \in {"active", "none"}
  <2>1. cr.phase = "Ready" => cr.id \in Images /\ Complete(cr.id)
    <3>1. cr.id \in MaybeImage
      BY TypeSplit DEF TInv, Resource
    <3> QED BY <1>2, <3>1 DEF TurnsInv, StatusInv, MaybeImage
  <2> QED BY <1>2, <1>3, <2>1
<1>5. ASSUME NEW u \in Threads,
             \/ thr'[u].pc \in {"adopt", "register"} /\ thr'[u].status = "active" /\ u # "poll"
             \/ thr'[u].pc = "patch" /\ thr'[u].out = "ready" /\ u # "poll"
             \/ thr'[u].pc = "patch" /\ thr'[u].out = "active" /\ u = "poll"
      PROVE  img'[thr'[u].id].status \in {"active", "none"}
  <2>1. CASE u = t
    BY <1>2, <1>3, <1>5, <2>1
  <2>2. CASE u # t
    <3>1. thr'[u] = thr[u] /\ Shape(u, thr[u])
      BY <2>2, ThreadTyped DEF Alone, Others
    <3>2. u # "poll" => thr[u].id \in Images /\ Complete(thr[u].id)
      BY <1>2, <1>5, <3>1 DEF StatusInv, At, Ends, Shape, Holding, Threads
    <3>3. u = "poll" => thr[u].id = cr.id /\ cr.phase = "Provisioning" /\ Complete(thr[u].id)
      BY <1>2, <1>5, <3>1 DEF StatusInv, TurnsInv, Ends, Busy
    <3>4. u = "poll" => thr[u].id \in Images
      <4>1. cr.id \in MaybeImage
        BY TypeSplit DEF TInv, Resource
      <4> QED BY <1>2, <3>3, <4>1 DEF TurnsInv, MaybeImage
    <3> QED BY <1>3, <3>1, <3>2, <3>3, <3>4
  <2> QED BY <2>1, <2>2
<1> QED BY <1>4, <1>5 DEF StatusInv, At, Ends, Complete, Threads

LEMMA StatusQuiet ==
  ASSUME TInv, ThreadsInv, TurnsInv, StatusInv, Steady, UNCHANGED thr,
         cr'.exists = cr.exists, cr'.external = cr.external, cr'.phase = cr.phase, cr'.id = cr.id
  PROVE  StatusInv'
<1>1. Managed' <=> Managed
  BY DEF Managed
<1>2. SUFFICES ASSUME Managed PROVE StatusInv'
  BY <1>1 DEF StatusInv
<1>3. \A i \in Images : Complete(i) => img'[i].status \in {"active", "none"}
  BY DEF Steady, Complete
<1>4. cr.phase \in {"Ready", "Provisioning"} => cr.id \in Images
  <2>1. cr.id \in MaybeImage
    BY TypeSplit DEF TInv, Resource
  <2> QED BY <1>2, <2>1 DEF TurnsInv, MaybeImage
<1>5. \A u \in Threads : Shape(u, thr[u])
  BY ThreadTyped
<1>6. \A u \in {"job", "recon"} :
        At(u, {"adopt", "register"}) \/ Ends(u, {"ready"}) => thr[u].id \in Images
  BY <1>5 DEF At, Ends, Shape, Holding, Threads
<1>7. Ends("poll", {"active"}) => thr["poll"].id \in Images
  BY <1>2, <1>4 DEF TurnsInv, Ends, Busy
<1> QED BY <1>2, <1>3, <1>4, <1>6, <1>7 DEF StatusInv, At, Ends, Complete

LEMMA StatusStep ==
  ASSUME TInv, Undisturbed, ThreadsInv, TurnsInv, NamedInv, StatusInv, [Next]_vars
  PROVE  StatusInv'
<1>0. /\ None \in MaybeImage /\ \A i \in Images : i \in MaybeImage /\ i # None
      /\ \A t \in Threads : Shape(t, thr[t])
  BY ThreadTyped, ImageAssumption DEF MaybeImage
<1>a. /\ UNCHANGED img => Steady
      /\ \A i : Removes(i) => Steady
      /\ \A i \in Images : Requests(i) => Steady
  BY DEF Steady, Removes, Requests
<1>1. CASE UNCHANGED vars
  BY <1>1, <1>a, StatusQuiet DEF vars
<1>2. CASE UserCreates
  BY <1>2, UserCreatesNext DEF ThreadsInv, StatusInv, Busy, At, Ends, Threads
<1>3. CASE UserEdits
  BY <1>3, UserEditsNext
<1>4. CASE UserDeletes \/ TimePasses
  BY <1>4, <1>a, UserDeletesNext, TimePassesNext, StatusQuiet DEF Updates, Live
<1>5. CASE \E i \in Images : GlanceImports(i) \/ OthersUpload(i) \/ OthersDelete(i)
  <2>1. ASSUME NEW i \in Images, GlanceImports(i) PROVE StatusInv'
    <3>1. Steady
      BY <2>1, GlanceImportsNext DEF Steady
    <3> QED BY <2>1, <3>1, GlanceImportsNext, StatusQuiet
  <2>2. ASSUME NEW i \in Images, OthersDelete(i) PROVE StatusInv'
    BY <1>a, <2>2, RemoveRemoves, StatusQuiet DEF OthersDelete
  <2> QED BY <1>5, <2>1, <2>2, OthersUploadNext
<1>6. CASE BeginCreate \/ BeginUpdate \/ BeginDelete \/ BeginPoll \/ BeginRecon
  <2>1. /\ UNCHANGED <<cr, img>>
        /\ \E t \in Threads : \E pc \in {"find", "modify", "release", "drop", "look", "drift"} :
             \E id \in MaybeImage : Starts(t, pc, id)
    BY <1>0, <1>6, BeginNext, ThreadNames
  <2> QED BY <1>a, <2>1, StatusLeft DEF Starts
<1>7. ASSUME NEW t \in Threads, Find(t) PROVE StatusInv'
  <2>1. /\ UNCHANGED <<cr, img>> /\ Alone(t)
        /\ \/ \E i \in Named : thr'[t].pc = "adopt" /\ thr'[t].id = i /\ thr'[t].status = img[i].status
           \/ thr'[t].pc = "create"
           \/ thr'[t].pc = "patch" /\ thr'[t].out = "notfound"
           \/ thr'[t].pc = "idle"
    BY <1>7, FindNext DEF Goes, Finishes, Rests
  <2>2. thr'[t].pc \in {"adopt", "register"} /\ thr'[t].status = "active" =>
          thr'[t].id \in Images /\ Complete(thr'[t].id)
    BY <2>1 DEF Named, Complete
  <2> QED BY <1>a, <2>1, <2>2, StatusLeft
<1>8. ASSUME NEW t \in Threads, Adopt(t) PROVE StatusInv'
  <2>1. t \in {"job", "recon"} /\ UNCHANGED <<cr, img>> /\ thr[t].pc = "adopt" /\ thr[t].id \in Images
    BY <1>8, AdoptNext, EnsuringThreads DEF Ensuring
  <2>2. CASE ~Managed
    BY <2>1, <2>2 DEF StatusInv, Managed
  <2>3. CASE Managed
    <3>1. ~thr[t].external /\ (thr[t].status = "active" => Complete(thr[t].id))
      BY <2>1, <2>3 DEF Managed, ThreadsInv, StatusInv, Busy, At
    <3>2. /\ Alone(t)
          /\ \/ /\ thr'[t].pc = "register" /\ thr'[t].id = thr[t].id
                /\ thr'[t].status = thr[t].status
             \/ thr'[t].pc = "patch" /\ thr'[t].out = "error"
             \/ thr'[t].pc = "idle"
      BY <1>8, <3>1, AdoptNext DEF Goes, Finishes, Rests, Raises
    <3> QED BY <1>a, <2>1, <3>1, <3>2, StatusLeft
  <2> QED BY <2>2, <2>3
<1>9. ASSUME NEW t \in Threads, Create(t) PROVE StatusInv'
  <2>1. t \in {"job", "recon"}
    BY <1>9, CreateNext, EnsuringThreads DEF Ensuring
  <2>2. thr[t].pc = "create" /\ Managed /\ UNCHANGED cr
    BY <1>9, <2>1, CreateNext DEF NamedInv, ThreadsInv, Managed, At, Busy
  <2>3. thr'[t].pc = "import" /\ Alone(t)
    BY <1>9, CreateNext DEF Goes
  <2>4. cr.phase # "Ready" /\ ~Busy("poll")
    <3>1. t = "job" => cr.phase # "Ready" /\ ~Busy("poll")
      BY <2>2 DEF TurnsInv, At, Ensuring
    <3>2. t = "recon" => cr.phase # "Ready" /\ ~Busy("poll")
      BY <2>2 DEF TurnsInv, At, Busy, Ensuring
    <3> QED BY <2>1, <3>1, <3>2
  <2>5. ASSUME NEW u \in {"job", "recon"}
        PROVE  /\ thr'[u].pc \notin {"adopt", "register"}
               /\ ~(thr'[u].pc = "patch" /\ thr'[u].out = "ready")
    <3>1. u # t => thr'[u] = thr[u]
      BY <2>3 DEF Alone, Others, Threads
    <3>2. CASE t = "job" /\ u = "recon"
      BY <2>2, <3>1, <3>2 DEF TurnsInv, At, Busy, Ensuring
    <3>3. CASE t = "recon" /\ u = "job"
      BY <2>2, <3>1, <3>3 DEF TurnsInv, At, Busy, Ends, Ensuring
    <3> QED BY <2>1, <2>3, <3>2, <3>3
  <2>6. thr'["poll"].pc = "idle"
    BY <2>1, <2>3, <2>4 DEF Alone, Others, Threads, Busy
  <2> QED BY <2>2, <2>4, <2>5, <2>6 DEF StatusInv, Managed, At, Ends
<1>10. ASSUME NEW t \in Threads, Import(t) PROVE StatusInv'
  <2>1. /\ UNCHANGED cr /\ Steady /\ Alone(t) /\ thr'[t].pc \in {"check", "patch", "idle"}
        /\ thr'[t].pc = "patch" => thr'[t].out = "error"
    BY <1>a, <1>10, ImportNext DEF Goes, Finishes, Rests, Raises
  <2> QED BY <2>1, StatusLeft
<1>11. ASSUME NEW t \in Threads, Check(t) PROVE StatusInv'
  <2>1. /\ UNCHANGED <<cr, img>> /\ Alone(t) /\ thr'[t].pc = "register" /\ thr'[t].id = thr[t].id
        /\ thr[t].id \in Images
        /\ thr'[t].status = "active" => Complete(thr[t].id)
    BY <1>11, CheckNext DEF Goes, Complete
  <2> QED BY <1>a, <2>1, StatusLeft
<1>12. ASSUME NEW t \in Threads, Register(t) PROVE StatusInv'
  <2>1. /\ UNCHANGED <<cr, img>> /\ Alone(t) /\ thr'[t].pc = "patch" /\ thr'[t].id = thr[t].id
        /\ thr[t].id \in Images /\ thr[t].pc = "register"
        /\ thr'[t].out = "importing" \/ (thr'[t].out = "ready" /\ thr[t].status = "active")
    BY <1>12, RegisterNext DEF Goes, Finishes
  <2>2. t \in {"job", "recon"}
    BY <2>1, EnsuringThreads DEF Ensuring
  <2>3. Managed /\ thr[t].status = "active" => Complete(thr[t].id)
    BY <2>1, <2>2 DEF StatusInv, At
  <2> QED BY <1>a, <2>1, <2>3, StatusLeft
<1>13. ASSUME NEW t \in Threads, FailCall(t) PROVE StatusInv'
  <2>1. /\ Alone(t) /\ thr'[t].pc \in {"patch", "idle"} /\ UNCHANGED <<cr, img>>
        /\ thr'[t].pc = "patch" => thr'[t].out = "error"
    BY <1>13, FailCallNext DEF Goes, Finishes, Rests, Raises
  <2> QED BY <1>a, <2>1, StatusLeft
<1>14. CASE Modify
  BY <1>14, ModifyNext DEF ThreadsInv, At
<1>15. CASE Drop \/ Unregister
  BY <1>15, <1>a, DropNext, UnregisterNext, StatusLeft, ThreadNames DEF Goes
<1>16. CASE Release
  BY <1>16, ReleaseNext DEF StatusInv, Managed
<1>17. CASE PollImage \/ ReapImage
  <2>1. /\ UNCHANGED cr /\ Steady /\ Alone("poll") /\ thr'["poll"].pc \in {"reap", "patch", "idle"}
        /\ thr'["poll"].pc = "patch" =>
             \/ thr'["poll"].out \in {"lost", "failed", "start", "retry"}
             \/ /\ thr'["poll"].out = "active" /\ thr'["poll"].id \in Images
                /\ Complete(thr'["poll"].id)
    BY <1>17, <1>a, PollImageNext, ReapImageNext DEF Goes, Finishes, Rests, Complete
  <2> QED BY <2>1, StatusLeft, ThreadNames
<1>18. CASE Drift
  <2>1. /\ Alone("recon") /\ thr'["recon"].pc \in {"patch", "idle"}
        /\ thr'["recon"].pc = "patch" => thr'["recon"].out \in {"lost", "mismatch"}
        /\ UNCHANGED <<cr, img>>
    BY <1>18, DriftNext DEF Goes, Finishes, Rests
  <2> QED BY <1>a, <2>1, StatusLeft, ThreadNames
<1>19. CASE PatchJob \/ PatchPoll \/ PatchRecon
  <2>1. /\ UNCHANGED img /\ cr'.exists = cr.exists /\ cr'.external = cr.external
        /\ \E t \in Threads : Rests(t)
    BY <1>19, PatchJobNext, PatchPollNext, PatchReconNext, ThreadNames DEF Updates
  <2>2. Managed /\ cr'.phase = "Ready" =>
          \/ cr.phase = "Ready" /\ cr'.id = cr.id
          \/ cr'.id \in Images /\ Complete(cr'.id)
    <3>1. CASE PatchJob
      <4>1. Managed /\ cr'.phase = "Ready" => Ends("job", {"ready"}) /\ cr'.id = thr["job"].id
        <5>1. Managed => ~Ends("job", {"notfound"})
          BY DEF TurnsInv
        <5> QED BY <3>1, <5>1, PatchJobNext DEF Ends
      <4>2. Ends("job", {"ready"}) => thr["job"].id \in Images
        BY <1>0, ThreadNames DEF Ends, Shape
      <4> QED BY <4>1, <4>2 DEF StatusInv
    <3>2. CASE PatchPoll
      <4>1. /\ Managed /\ Ends("poll", {"active"}) =>
                 cr.id = thr["poll"].id /\ cr.id # None /\ Complete(cr.id)
            /\ cr.id \in MaybeImage
        BY TypeSplit DEF TInv, Resource, TurnsInv, StatusInv, Ends, Busy
      <4> QED BY <3>2, <4>1, PatchPollNext DEF Ends, MaybeImage
    <3>3. CASE PatchRecon
      <4>1. Ends("recon", {"ready"}) => thr["recon"].id \in Images
        BY <1>0, ThreadNames DEF Ends, Shape
      <4> QED BY <3>3, <4>1, PatchReconNext DEF StatusInv, Ends
    <3> QED BY <1>19, <3>1, <3>2, <3>3
  <2> QED BY <1>a, <2>1, <2>2, StatusLeft DEF Rests
<1>20. CASE GcCollect
  BY <1>20, <1>a, GcCollectNext, StatusQuiet
<1>21. CASE OperatorRestart
  BY <1>21, RestartNext DEF StatusInv, Managed, At, Ends, Threads, Complete
<1> QED BY <1>1, <1>2, <1>3, <1>4, <1>5, <1>6, <1>7, <1>8, <1>9, <1>10, <1>11, <1>12, <1>13,
           <1>14, <1>15, <1>16, <1>17, <1>18, <1>19, <1>20, <1>21, StepCases

-----------------------------------------------------------------------------
(* What exists is registered, or will be by the thread that has made it. *)

Registering == {"import", "check", "register"}
EntryInv ==
  faults \cap {"api", "crash"} = {} =>
    \A i \in Images :
      Exists(i) => entry = i \/ \E t \in Threads : At(t, Registering) /\ thr[t].id = i

\* A step of t that leaves the registry alone, in which t goes on registering what it
\* registers unless that is gone.
LEMMA EntryLeft ==
  ASSUME EntryInv, NEW t \in Threads, Alone(t), UNCHANGED <<env, entry>>,
         \A i \in Images : img'[i].status # "none" /\ img[i].status = "none" =>
           thr'[t].pc \in Registering /\ thr'[t].id = i,
         thr[t].pc \in Registering =>
           \/ thr'[t].pc \in Registering /\ thr'[t].id = thr[t].id
           \/ thr[t].id \in Images => ~Exists(thr[t].id) /\ img'[thr[t].id].status = "none"
  PROVE  EntryInv'
<1>1. faults' = faults
  BY DEF faults
<1>2. ASSUME faults \cap {"api", "crash"} = {}, NEW i \in Images, img'[i].status # "none"
      PROVE  entry' = i \/ \E u \in Threads : thr'[u].pc \in Registering /\ thr'[u].id = i
  <2>1. CASE img[i].status = "none"
    BY <1>2, <2>1
  <2>2. CASE entry = i
    BY <2>2
  <2>3. CASE img[i].status # "none" /\ entry # i
    <3>1. PICK u \in Threads : thr[u].pc \in Registering /\ thr[u].id = i
      BY <1>2, <2>3 DEF EntryInv, Exists, At
    <3>2. CASE u = t
      BY <1>2, <2>3, <3>1, <3>2 DEF Exists
    <3>3. CASE u # t
      BY <3>1, <3>3 DEF Alone, Others
    <3> QED BY <3>2, <3>3
  <2> QED BY <2>1, <2>2, <2>3
<1> QED BY <1>1, <1>2 DEF EntryInv, Exists, At

LEMMA EntryQuiet ==
  ASSUME EntryInv, Fewer, UNCHANGED <<env, thr, entry>>
  PROVE  EntryInv'
<1>1. faults' = faults
  BY DEF faults
<1> QED BY <1>1 DEF EntryInv, Exists, At, Fewer

LEMMA EntryStep ==
  ASSUME TInv, Undisturbed, ThreadsInv, TurnsInv, NamedInv, EntryInv, [Next]_vars
  PROVE  EntryInv'
<1>0. /\ None \in MaybeImage /\ \A i \in Images : i \in MaybeImage /\ i # None
      /\ \A t \in Threads : Shape(t, thr[t])
  BY ThreadTyped, ImageAssumption DEF MaybeImage
<1>a. /\ UNCHANGED img => Fewer
      /\ \A i : Removes(i) => Fewer
      /\ \A i \in Images : Requests(i) => Fewer
  BY DEF Fewer, Removes, Requests
<1>b. Fewer => \A i \in Images : ~(img'[i].status # "none" /\ img[i].status = "none")
  BY DEF Fewer
<1>1. CASE UNCHANGED vars
  BY <1>1, <1>a, EntryQuiet DEF vars
<1>2. CASE UserCreates \/ UserEdits \/ UserDeletes \/ TimePasses
  BY <1>2, <1>a, UserCreatesNext, UserEditsNext, UserDeletesNext, TimePassesNext, EntryQuiet
<1>3. CASE \E i \in Images : GlanceImports(i) \/ OthersUpload(i) \/ OthersDelete(i)
  <2>1. ASSUME NEW i \in Images, GlanceImports(i) PROVE EntryInv'
    <3>1. Fewer
      BY <2>1, GlanceImportsNext DEF Fewer
    <3> QED BY <2>1, <3>1, GlanceImportsNext, EntryQuiet
  <2>2. ASSUME NEW i \in Images, OthersDelete(i) PROVE EntryInv'
    BY <1>a, <2>2, RemoveRemoves, EntryQuiet DEF OthersDelete
  <2> QED BY <1>3, <2>1, <2>2, OthersUploadNext
<1>4. CASE BeginCreate \/ BeginUpdate \/ BeginDelete \/ BeginPoll \/ BeginRecon
  <2>1. /\ UNCHANGED <<env, img, entry>>
        /\ \E t \in Threads : thr[t].pc = "idle" /\ Alone(t)
    BY <1>4, BeginNext, ThreadNames DEF Starts
  <2> QED BY <1>a, <1>b, <2>1, EntryLeft DEF Registering
<1>5. ASSUME NEW t \in Threads, Find(t) \/ Adopt(t) PROVE EntryInv'
  <2>1. /\ UNCHANGED <<env, img, entry>> /\ thr[t].pc \in {"find", "adopt"} /\ Alone(t)
    BY <1>5, FindNext, AdoptNext DEF Goes, Finishes, Rests, Raises
  <2> QED BY <1>a, <1>b, <2>1, EntryLeft DEF Registering
<1>6. ASSUME NEW t \in Threads, Create(t) PROVE EntryInv'
  <2>1. PICK i \in Images :
          /\ Alone(t) /\ thr'[t].pc = "import" /\ thr'[t].id = i
          /\ \A j \in Images \ {i} : img'[j] = img[j]
    BY <1>6, CreateNext DEF Goes
  <2>2. UNCHANGED <<env, entry>> /\ thr[t].pc = "create"
    BY <1>6, CreateNext
  <2> QED BY <2>1, <2>2, EntryLeft DEF Registering
<1>7. ASSUME NEW t \in Threads, Import(t) \/ Check(t) PROVE EntryInv'
  <2>1. /\ UNCHANGED <<env, entry>> /\ Fewer /\ Alone(t) /\ thr[t].id \in Images
        /\ \/ thr'[t].pc \in {"check", "register"} /\ thr'[t].id = thr[t].id
           \/ ~Exists(thr[t].id)
    BY <1>7, <1>a, ImportNext, CheckNext DEF Goes, Finishes, Rests, Raises
  <2>2. ~Exists(thr[t].id) => img'[thr[t].id].status = "none"
    BY <2>1 DEF Fewer, Exists
  <2> QED BY <1>b, <2>1, <2>2, EntryLeft DEF Registering
<1>8. ASSUME NEW t \in Threads, Register(t) PROVE EntryInv'
  <2>1. /\ UNCHANGED img /\ entry' = thr[t].id /\ thr[t].pc = "register"
    BY <1>8, RegisterNext
  <2>2. t \in {"job", "recon"}
    BY <2>1, EnsuringThreads DEF Ensuring
  <2>3. Only(thr[t].id)
    BY <2>1, <2>2 DEF NamedInv, ThreadsInv, Managed, Busy, At
  <2> QED BY <2>1, <2>3 DEF EntryInv, Exists, Only, Named
<1>9. ASSUME NEW t \in Threads, FailCall(t) PROVE EntryInv'
  <2>1. "api" \in faults /\ env' = env
    BY <1>9, FailCallNext
  <2>2. faults' = faults
    BY <2>1 DEF faults
  <2> QED BY <2>1, <2>2 DEF EntryInv
<1>10. CASE Modify
  BY <1>10, ModifyNext DEF ThreadsInv, At
<1>11. CASE Drop \/ Release \/ PatchJob
  <2>1. /\ UNCHANGED <<env, entry>> /\ Fewer /\ Alone("job") /\ thr["job"].pc \notin Registering
    BY <1>11, <1>a, DropNext, ReleaseNext, PatchJobNext DEF Goes, Rests, Registering
  <2> QED BY <1>b, <2>1, EntryLeft, ThreadNames
<1>12. CASE Unregister
  <2>1. UNCHANGED img /\ Named = {}
    BY <1>12, UnregisterNext, ThreadNames DEF NamedInv, ThreadsInv, Managed, Busy, At
  <2> QED BY <2>1 DEF EntryInv, Exists, Named
<1>13. CASE PollImage \/ ReapImage \/ PatchPoll
  <2>1. /\ UNCHANGED <<env, entry>> /\ Fewer /\ Alone("poll") /\ thr["poll"].pc \notin Registering
    BY <1>13, <1>a, PollImageNext, ReapImageNext, PatchPollNext
       DEF Goes, Finishes, Rests, Registering
  <2> QED BY <1>b, <2>1, EntryLeft, ThreadNames
<1>14. CASE Drift \/ PatchRecon
  <2>1. /\ UNCHANGED <<env, entry>> /\ Fewer /\ Alone("recon") /\ thr["recon"].pc \notin Registering
    BY <1>14, <1>a, DriftNext, PatchReconNext DEF Goes, Finishes, Rests, Registering
  <2> QED BY <1>b, <2>1, EntryLeft, ThreadNames
<1>15. CASE GcCollect
  <2>1. /\ ~cr.exists /\ env' = env /\ entry \in Images /\ Removes(entry)
    BY <1>15, GcCollectNext
  <2>2. faults' = faults
    BY <2>1 DEF faults
  <2>3. \A t \in Threads : ~Busy(t)
    BY <2>1 DEF ThreadsInv
  <2>4. \A t \in Threads : ~At(t, Registering)
    BY <2>3 DEF Busy, At, Registering
  <2>5. ASSUME faults \cap {"api", "crash"} = {}, NEW i \in Images PROVE img'[i].status = "none"
    BY <2>1, <2>4, <2>5 DEF EntryInv, Exists, Removes
  <2> QED BY <2>2, <2>5 DEF EntryInv, Exists
<1>16. CASE OperatorRestart
  <2>1. "crash" \in faults /\ env' = env
    BY <1>16, RestartNext
  <2>2. faults' = faults
    BY <2>1 DEF faults
  <2> QED BY <2>1, <2>2 DEF EntryInv
<1> QED BY <1>1, <1>2, <1>3, <1>4, <1>5, <1>6, <1>7, <1>8, <1>9, <1>10, <1>11, <1>12, <1>13,
           <1>14, <1>15, <1>16, StepCases

-----------------------------------------------------------------------------
(* The inductive invariant, and what follows from it. *)

IInv ==
  /\ TInv
  /\ Undisturbed => ThreadsInv /\ TurnsInv /\ NamedInv /\ StatusInv /\ EntryInv

LEMMA Inductive == IInv /\ [Next]_vars => IInv'
<1> SUFFICES ASSUME IInv, [Next]_vars PROVE IInv'
  OBVIOUS
<1>1. TInv /\ TInv'
  BY TypesStep DEF IInv
<1>2. env' = env
  BY <1>1, StepCases, UserCreatesNext, UserEditsNext, UserDeletesNext, TimePassesNext,
     GlanceImportsNext, OthersUploadNext, BeginNext, FindNext, AdoptNext, CreateNext, ImportNext,
     CheckNext, RegisterNext, FailCallNext, ModifyNext, DropNext, UnregisterNext, ReleaseNext,
     PollImageNext, ReapImageNext, DriftNext, PatchJobNext, PatchPollNext, PatchReconNext,
     GcCollectNext, RestartNext DEF OthersDelete, vars
<1>3. Undisturbed' => Undisturbed
  BY <1>2 DEF Undisturbed, faults
<1> QED BY <1>1, <1>3, ThreadsStep, TurnsStep, NamedStep, StatusStep, EntryStep DEF IInv

LEMMA InitHolds == Init => IInv
<1> SUFFICES ASSUME Init PROVE IInv
  OBVIOUS
<1>1. PICK y : y = Idle /\ y.pc = "idle"
  BY Blank
<1>2. \A t \in Threads : thr[t].pc = "idle"
  BY <1>1 DEF Init
<1>3. PICK c : c = AbsentCR
  OBVIOUS
<1>4. ~cr.exists /\ ~cr.deleting
  <2>1. ~c.exists /\ ~c.deleting
    BY <1>3 DEF AbsentCR
  <2> QED BY <1>3, <2>1 DEF Init
<1>5. PICK w : w = NoImage
  OBVIOUS
<1>6. \A i \in Images : img[i].status = "none"
  <2>1. w.status = "none"
    BY <1>5 DEF NoImage
  <2> QED BY <1>5, <2>1 DEF Init
<1>7. ThreadsInv
  BY <1>2, <1>4, ThreadNames DEF ThreadsInv, Busy, At, Ends
<1>8. TurnsInv /\ StatusInv
  BY <1>4 DEF TurnsInv, StatusInv, Managed
<1>9. NamedInv /\ EntryInv
  BY <1>4, <1>6 DEF NamedInv, EntryInv, Managed, Exists
<1> QED BY <1>7, <1>8, <1>9, TypesInit DEF IInv

LEMMA Invariance == Spec => []IInv
BY InitHolds, Inductive, PTL DEF Spec

\* A CR that nobody edits becomes Ready only with an image that Glance has imported, whichever
\* of the handler, poll_image_status and reconcile_image gets there first.
THEOREM ReadyMeansImported == Spec => []ReadyAfterImport
<1>1. IInv => ReadyAfterImport
  BY DEF IInv, StatusInv, Managed, ReadyAfterImport, Live, Complete
<1> QED BY <1>1, Invariance, PTL

\* ensure_image adopts what there is of the name: retries, restarts and timers of a CR that
\* nobody edits never leave it with two images.
THEOREM NeverTwoImages == Spec => []OneImage
<1>1. IInv => OneImage
  <2> SUFFICES ASSUME IInv, Undisturbed
              PROVE  Cardinality({i \in Images : img[i].ours /\ Exists(i)}) <= 1
    BY DEF OneImage
  <2>1. PICK S : S = {i \in Images : img[i].ours /\ Exists(i)}
    OBVIOUS
  <2>2. \A i, j \in S : i = j
    BY <2>1 DEF IInv, NamedInv
  <2>3. S = {} \/ \E i : S = {i}
    BY <2>2
  <2>4. Cardinality(S) = 0 \/ Cardinality(S) = 1
    BY <2>3, FS_EmptySet, FS_Singleton, Zenon
  <2>5. Cardinality(S) <= 1
    BY <2>4
  <2> QED BY <2>1, <2>5, Zenon
<1> QED BY <1>1, Invariance, PTL

\* When calls do not fail and the operator does not restart, an image whose CR is gone is in the
\* registry, where the cluster garbage collector finds it.
THEOREM ImagesAreRegistered == Spec => []NothingForgotten
<1>1. IInv => NothingForgotten
  <2> SUFFICES ASSUME IInv, Undisturbed, faults \cap {"api", "crash"} = {}, ~cr.exists,
                      NEW i \in Images, Exists(i)
              PROVE  entry = i
    BY DEF NothingForgotten
  <2>1. \A t \in Threads : ~At(t, Registering)
    BY DEF IInv, ThreadsInv, Busy, At, Registering
  <2> QED BY <2>1 DEF IInv, EntryInv
<1> QED BY <1>1, Invariance, PTL
=============================================================================
