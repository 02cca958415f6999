--------------------------- MODULE Interop_proofs ---------------------------
(***************************************************************************)
(* Proofs about the foreign-app commands, for every set of vessels, barrels, *)
(* recipes and terminals and any number of commands, failing tools and       *)
(* kills.                                                                   *)
(*                                                                          *)
(* Flotilla: no command allocates over a disk that a guest has installed      *)
(* itself on (DisksAreKept), and the vessels' records, their ISOs and what   *)
(* libvirt has of them agree (VesselsAreTrue).  The first argument: a disk    *)
(* with something on it belongs to a saved vessel (Unsaved), and a command    *)
(* has "allocate" among its steps only while the disk is not there, once,     *)
(* and behind its "save" (Sound).  The second: the steps of a command come    *)
(* in the order of Rank, so that what a step relies on is behind it; what a   *)
(* launch or a define has still to do says which of record, XML and domain    *)
(* already agree with its configuration (Launching); and as long as nothing   *)
(* failed, only such a command can have left a vessel ahead of its domain     *)
(* (DomainsFit).                                                            *)
(*                                                                          *)
(* Drydock and Gangway: an install that exits with 0 has done its plan        *)
(* (CompleteAtZero).  The operations of a plan are the last steps of the      *)
(* command (Remaining), those done are its beginning (InOrder), and a halt    *)
(* that leaves more than the user's own step undone sets the status (AtEnd).  *)
(***************************************************************************)
EXTENDS Flotilla, Drydock, Gangway, SequenceTheorems, FiniteSetTheorems, WellFoundedInduction, TLAPS

StepNames == {"build_unattend", "save", "allocate", "refuse", "fetch_distro", "fetch_virtio",
              "again_distro", "again_virtio", "write_xml", "define", "start", "start_anyway",
              "stop", "undefine", "delete", "address", "save_profile"}
CmdNames == {"none", "create", "launch", "define", "start", "stop", "rm", "connect", "look",
             "fetch"}
VesselType == [saved : BOOLEAN, os : Oses, iso : IsoArgs, virtio : BOOLEAN,
               provisioned : BOOLEAN, entry : {"console", "rdp"}, profile : BOOLEAN]
JobType == [cmd : CmdNames, on : Vessels \cup {"none"}, todo : Seq(StepNames), rc : Nat,
            cfg : VesselType]
DiskStates == {"none", "blank", "installed", "left"}

Types == /\ vstore \in [Vessels -> VesselType]
         /\ disk \in [Vessels -> DiskStates]
         /\ job \in JobType

\* Nothing of a guest's is on the disk.
Free(v) == disk[v] \in {"none", "left"}

\* What may stand in the list of steps of a command.
Sound(todo, cmd, v, cfg) ==
    \A i \in 1..Len(todo) :
        /\ todo[i] \in {"save", "save_profile"} => cfg.saved
        /\ todo[i] = "delete" => cmd = "rm"
        /\ todo[i] = "allocate" =>
              /\ v \in Vessels /\ cmd # "rm" /\ Free(v)
              /\ \A j \in 1..Len(todo) : todo[j] = "allocate" => j = i
              /\ vstore[v].saved \/ \E j \in 1..(i - 1) : todo[j] = "save"

Unsaved == \A v \in Vessels : ~vstore[v].saved => Free(v)

DiskInv == Types /\ Unsaved /\ Sound(job.todo, job.cmd, job.on, job.cfg)

-----------------------------------------------------------------------------
(* Lists of steps *)

\* Steps that neither save, nor allocate, nor delete.
Plain(s) == /\ s \in Seq(StepNames)
            /\ \A i \in 1..Len(s) : s[i] \notin {"save", "save_profile", "allocate", "delete"}

LEMMA PlainEmpty == Plain(<<>>)
BY DEF Plain

LEMMA PlainOne ==
    ASSUME NEW x \in StepNames, x \notin {"save", "save_profile", "allocate", "delete"}
    PROVE  Plain(<<x>>)
BY DEF Plain

LEMMA TwoSteps ==
    ASSUME NEW x \in StepNames, NEW y \in StepNames
    PROVE  /\ <<x, y>> \in Seq(StepNames)
           /\ \A i \in 1..Len(<<x, y>>) : <<x, y>>[i] \in {x, y}
<1>1. Len(<<x, y>>) = 2 /\ <<x, y>>[1] = x /\ <<x, y>>[2] = y
  OBVIOUS
<1>2. \A i \in 1..2 : i = 1 \/ i = 2
  OBVIOUS
<1>3. <<x, y>> \in Seq(StepNames)
  OBVIOUS
<1> QED
  BY <1>1, <1>2, <1>3

LEMMA PlainDefine == Plain(<<"write_xml", "define">>)
BY DEF Plain, StepNames

LEMMA PlainIf ==
    ASSUME NEW c \in BOOLEAN, NEW s, Plain(s)
    PROVE  Plain(If(c, s))
BY PlainEmpty DEF If

LEMMA ConcatSteps ==
    ASSUME NEW s \in Seq(StepNames), NEW t \in Seq(StepNames)
    PROVE  /\ s \o t \in Seq(StepNames) /\ Len(s \o t) = Len(s) + Len(t)
           /\ \A i \in 1..(Len(s) + Len(t)) :
                 (s \o t)[i] = IF i <= Len(s) THEN s[i] ELSE t[i - Len(s)]
BY ConcatProperties

LEMMA PlainConcat ==
    ASSUME NEW s, NEW t, Plain(s), Plain(t)
    PROVE  Plain(s \o t)
<1>1. s \in Seq(StepNames) /\ t \in Seq(StepNames)
  BY DEF Plain
<1>2. /\ s \o t \in Seq(StepNames)
      /\ Len(s \o t) = Len(s) + Len(t)
      /\ \A i \in 1..(Len(s) + Len(t)) :
            (s \o t)[i] = IF i <= Len(s) THEN s[i] ELSE t[i - Len(s)]
  BY <1>1, ConcatProperties
<1>3. Len(s) \in Nat /\ Len(t) \in Nat
  BY <1>1
<1>4. ASSUME NEW i \in 1..Len(s \o t)
      PROVE  (s \o t)[i] \notin {"save", "save_profile", "allocate", "delete"}
  <2>1. CASE i <= Len(s)
    <3>1. i \in 1..Len(s) /\ (s \o t)[i] = s[i]
      BY <1>2, <1>3, <1>4, <2>1
    <3> QED
      BY <3>1 DEF Plain
  <2>2. CASE ~(i <= Len(s))
    <3>1. i - Len(s) \in 1..Len(t) /\ (s \o t)[i] = t[i - Len(s)]
      BY <1>2, <1>3, <1>4, <2>2
    <3> QED
      BY <3>1 DEF Plain
  <2> QED
    BY <2>1, <2>2
<1> QED
  BY <1>2, <1>4 DEF Plain

\* Plain steps ask for nothing.
LEMMA PlainSound ==
    ASSUME NEW s, NEW cmd, NEW v, NEW cfg, Plain(s)
    PROVE  s \in Seq(StepNames) /\ Sound(s, cmd, v, cfg)
BY DEF Plain, Sound

LEMMA AllocateSeq ==
    /\ <<"save">> \in Seq(StepNames)
    /\ \A a \in {<<>>, <<"allocate">>} :
          /\ a \in Seq(StepNames) /\ Len(a) \in {0, 1}
          /\ Len(a) = 1 => a = <<"allocate">> /\ a[1] = "allocate"
<1>1. <<"save">> \in Seq(StepNames) /\ <<"allocate">> \in Seq(StepNames) /\ <<>> \in Seq(StepNames)
  BY DEF StepNames
<1>2. Len(<<"allocate">>) = 1 /\ Len(<<>>) = 0 /\ <<"allocate">>[1] = "allocate"
  OBVIOUS
<1> QED
  BY <1>1, <1>2

\* A list with its one "save", then perhaps an "allocate", then plain steps.
Saving(p, a, t) == ((p \o <<"save">>) \o a) \o t
LEMMA SaveAllocate ==
    ASSUME NEW p, NEW t, Plain(p), Plain(t), NEW a \in {<<>>, <<"allocate">>},
           NEW cmd, NEW v \in Vessels, NEW cfg, cfg.saved, cmd # "rm",
           a = <<"allocate">> => Free(v)
    PROVE  /\ Saving(p, a, t) \in Seq(StepNames)
           /\ Sound(Saving(p, a, t), cmd, v, cfg)
<1> DEFINE ps == p \o <<"save">>
           pa == ps \o a
           s == pa \o t
           n == Len(p)
           k == Len(a)
<1>1. p \in Seq(StepNames) /\ t \in Seq(StepNames) /\ a \in Seq(StepNames) /\ <<"save">> \in Seq(StepNames)
  <2>1. p \in Seq(StepNames) /\ t \in Seq(StepNames)
    BY DEF Plain
  <2> QED
    BY <2>1, AllocateSeq
<1>2. n \in Nat /\ Len(t) \in Nat /\ k \in {0, 1} /\ Len(<<"save">>) = 1
  BY <1>1, AllocateSeq
<1>3. /\ ps \in Seq(StepNames) /\ Len(ps) = n + 1
      /\ \A i \in 1..(n + 1) : ps[i] = IF i <= n THEN p[i] ELSE <<"save">>[i - n]
  BY <1>1, <1>2, ConcatProperties
<1>4. /\ pa \in Seq(StepNames) /\ Len(pa) = n + 1 + k
      /\ \A i \in 1..(n + 1 + k) : pa[i] = IF i <= n + 1 THEN ps[i] ELSE a[i - (n + 1)]
  <2>1. ps \in Seq(StepNames) /\ Len(ps) = n + 1
    BY <1>3
  <2> HIDE DEF ps
  <2>2. /\ ps \o a \in Seq(StepNames) /\ Len(ps \o a) = Len(ps) + Len(a)
        /\ \A i \in 1..(Len(ps) + Len(a)) :
              (ps \o a)[i] = IF i <= Len(ps) THEN ps[i] ELSE a[i - Len(ps)]
    BY <2>1, <1>1, ConcatProperties
  <2> QED
    BY <2>1, <2>2
<1>5. /\ s \in Seq(StepNames) /\ Len(s) = n + 1 + k + Len(t)
      /\ \A i \in 1..(n + 1 + k + Len(t)) :
            s[i] = IF i <= n + 1 + k THEN pa[i] ELSE t[i - (n + 1 + k)]
  <2>1. pa \in Seq(StepNames) /\ Len(pa) = n + 1 + k
    BY <1>4
  <2> HIDE DEF pa, ps
  <2>2. /\ pa \o t \in Seq(StepNames) /\ Len(pa \o t) = Len(pa) + Len(t)
        /\ \A i \in 1..(Len(pa) + Len(t)) :
              (pa \o t)[i] = IF i <= Len(pa) THEN pa[i] ELSE t[i - Len(pa)]
    BY <2>1, <1>1, ConcatSteps
  <2> QED
    BY <2>1, <2>2
<1> HIDE DEF ps, pa, s
<1>6. ASSUME NEW i \in 1..Len(s), i <= n
      PROVE  s[i] \notin {"save", "save_profile", "allocate", "delete"}
  <2>1. i \in 1..n /\ s[i] = pa[i] /\ pa[i] = ps[i] /\ ps[i] = p[i]
    BY <1>2, <1>3, <1>4, <1>5, <1>6
  <2> QED
    BY <2>1 DEF Plain
<1>7. s[n + 1] = "save"
  BY <1>2, <1>3, <1>4, <1>5
<1>8. ASSUME NEW i \in 1..Len(s), i = n + 2, k = 1
      PROVE  s[i] = "allocate" /\ a = <<"allocate">>
  <2>1. a = <<"allocate">> /\ a[1] = "allocate"
    BY <1>8, AllocateSeq
  <2>2. s[i] = pa[i] /\ pa[i] = a[1]
    BY <1>2, <1>4, <1>5, <1>8
  <2> QED
    BY <2>1, <2>2
<1>9. ASSUME NEW i \in 1..Len(s), i > n + 1 + k
      PROVE  s[i] \notin {"save", "save_profile", "allocate", "delete"}
  <2>1. i - (n + 1 + k) \in 1..Len(t) /\ s[i] = t[i - (n + 1 + k)]
    BY <1>2, <1>5, <1>9
  <2> QED
    BY <2>1 DEF Plain
<1>10. ASSUME NEW i \in 1..Len(s)
       PROVE  \/ i <= n \/ i = n + 1 \/ (i = n + 2 /\ k = 1) \/ i > n + 1 + k
  <2> HIDE DEF n, k
  <2>1. i \in Int
    BY <1>2, <1>5
  <2>2. CASE k = 0
    BY <2>1, <2>2, <1>2
  <2>3. CASE k = 1
    BY <2>1, <2>3, <1>2
  <2> QED
    BY <2>2, <2>3, <1>2
<1>11. ASSUME NEW i \in 1..Len(s)
       PROVE  /\ s[i] \in {"save", "save_profile"} => cfg.saved
              /\ s[i] # "delete"
              /\ s[i] = "allocate" => i = n + 2 /\ k = 1
  BY <1>6, <1>7, <1>8, <1>9, <1>10
<1>12. Sound(s, cmd, v, cfg)
  <2> SUFFICES ASSUME NEW i \in 1..Len(s), s[i] = "allocate"
               PROVE  /\ Free(v)
                      /\ \A j \in 1..Len(s) : s[j] = "allocate" => j = i
                      /\ \E j \in 1..(i - 1) : s[j] = "save"
    BY <1>11 DEF Sound
  <2>1. i = n + 2 /\ k = 1
    BY <1>11
  <2>2. Free(v)
    BY <2>1, <1>8
  <2>3. \A j \in 1..Len(s) : s[j] = "allocate" => j = i
    BY <2>1, <1>11
  <2>4. n + 1 \in 1..(i - 1)
    BY <2>1, <1>2
  <2> QED
    BY <2>2, <2>3, <2>4, <1>7
<1> QED
  <2>1. s = Saving(p, a, t)
    BY DEF Saving, s, pa, ps
  <2> QED
    BY <2>1, <1>5, <1>12

-----------------------------------------------------------------------------
(* Starting a command *)

LEMMA BeginKeeps ==
    ASSUME DiskInv, NEW cmd \in CmdNames, NEW v \in Vessels \cup {"none"}, NEW todo \in Seq(StepNames),
           NEW rc \in Nat, NEW cfg \in VesselType, Sound(todo, cmd, v, cfg),
           Begin(cmd, v, todo, rc, cfg)
    PROVE  DiskInv'
<1>1. job' = [cmd |-> cmd, on |-> v, todo |-> todo, rc |-> rc, cfg |-> cfg]
      /\ UNCHANGED <<vstore, disk>>
  BY DEF Begin
<1>2. Types'
  BY <1>1 DEF DiskInv, Types, JobType
<1>3. Unsaved'
  BY <1>1 DEF DiskInv, Unsaved, Free
<1>4. Sound(job.todo, job.cmd, job.on, job.cfg)'
  BY <1>1 DEF Sound, Free
<1> QED
  BY <1>2, <1>3, <1>4 DEF DiskInv

LEMMA BeginPlain ==
    ASSUME DiskInv, NEW cmd \in CmdNames, NEW v \in Vessels \cup {"none"}, NEW todo,
           NEW rc \in Nat, NEW cfg \in VesselType, Plain(todo), Begin(cmd, v, todo, rc, cfg)
    PROVE  DiskInv'
BY BeginKeeps, PlainSound

LEMMA NoVesselType == NoVessel \in VesselType
BY DEF NoVessel, VesselType, Oses, IsoArgs

\* define, start, stop, connect, address and the looks.
LEMMA OnVesselPlain ==
    ASSUME DiskInv, NEW cmd \in CmdNames, NEW v \in Vessels, NEW steps, Plain(steps),
           OnVessel(cmd, v, steps)
    PROVE  DiskInv'
<1>1. vstore[v] \in VesselType
  BY DEF DiskInv, Types
<1> QED
  BY <1>1, BeginPlain, PlainEmpty, NoVesselType DEF OnVessel

LEMMA RecommendedType ==
    ASSUME NEW os \in Oses, NEW iso \in IsoArgs
    PROVE  Recommended(os, iso) \in VesselType /\ Recommended(os, iso).saved
BY DEF Recommended, NoVessel, VesselType, Oses, IsoArgs

LEMMA ProvisionedType ==
    ASSUME NEW cfg \in VesselType, cfg.saved
    PROVE  Provisioned(cfg) \in VesselType /\ Provisioned(cfg).saved
BY DEF Provisioned, VesselType

LEMMA CreateKeeps ==
    ASSUME DiskInv, NEW v \in Vessels, NEW os \in Oses, NEW iso \in IsoArgs,
           NEW provision \in BOOLEAN, NEW allocate \in BOOLEAN,
           CreateVessel(v, os, iso, provision, allocate)
    PROVE  DiskInv'
<1> DEFINE p == If(provision, <<"build_unattend">>)
           a == If(allocate, <<"allocate">>)
           cfg == Recommended(os, iso)
           c == IF provision THEN Provisioned(cfg) ELSE cfg
           steps == p \o <<"save">> \o a
<1>1. CASE vstore[v].saved \/ (provision /\ os # "windows")
  <2>0. "create" \in CmdNames
    BY DEF CmdNames
  <2>1. Begin("create", v, <<>>, 1, NoVessel)
    BY <1>1 DEF CreateVessel
  <2> QED
    BY <2>0, <2>1, BeginPlain, PlainEmpty, NoVesselType
<1>2. CASE ~(vstore[v].saved \/ (provision /\ os # "windows"))
  <2>1. Begin("create", v, steps, 0, c)
    BY <1>2 DEF CreateVessel
  <2>2. Plain(p)
    BY PlainIf, PlainOne DEF StepNames
  <2>3. a \in {<<>>, <<"allocate">>}
    BY DEF If
  <2>4. c \in VesselType /\ c.saved
    BY RecommendedType, ProvisionedType
  <2>5. Free(v)
    BY <1>2 DEF DiskInv, Unsaved
  <2> HIDE DEF p, a, c
  <2>6. Sound(Saving(p, a, <<>>), "create", v, c)
    BY <2>2, <2>3, <2>4, <2>5, PlainEmpty, SaveAllocate
  <2>7. steps \in Seq(StepNames)
    <3>1. p \in Seq(StepNames) /\ a \in Seq(StepNames) /\ <<"save">> \in Seq(StepNames)
      BY <2>2, <2>3, AllocateSeq DEF Plain
    <3>2. p \o <<"save">> \in Seq(StepNames)
      BY <3>1, ConcatProperties
    <3> QED
      BY <3>1, <3>2, ConcatProperties
  <2>8. steps \o <<>> = steps
    BY <2>7, ConcatEmptySeq
  <2>9. Sound(steps, "create", v, c)
    BY <2>6, <2>8 DEF Saving
  <2> HIDE DEF steps
  <2> QED
    BY <2>1, <2>4, <2>7, <2>9, BeginKeeps DEF CmdNames
<1> QED
  BY <1>1, <1>2

LEMMA LaunchKeeps ==
    ASSUME DiskInv, NEW v \in Vessels, NEW os \in Oses, NEW iso \in IsoArgs,
           NEW provision \in BOOLEAN, NEW allocate \in BOOLEAN, NEW start \in BOOLEAN,
           Launch(v, os, iso, provision, allocate, start)
    PROVE  DiskInv'
<1> DEFINE new == ~vstore[v].saved
           base == IF new THEN Recommended(os, "") ELSE vstore[v]
           cfg == IF iso = "" THEN base ELSE [base EXCEPT !.iso = iso]
           m1 == If(iso = "distro", <<"fetch_distro">>)
           m2 == If(cfg.os = "windows" /\ cfg.virtio, <<"fetch_virtio">>)
           m3 == If(provision, ProvisionStep(cfg))
           a == If(Allocates(new, allocate), <<"allocate">>)
           media == m1 \o m2 \o m3 \o <<"save">> \o a
           tail == <<"write_xml", "define">> \o If(start, <<"start_anyway">>)
           c == IF provision THEN Provisioned(cfg) ELSE cfg
<1>1. CASE iso = "mido"
  <2>0. "launch" \in CmdNames
    BY DEF CmdNames
  <2>1. Begin("launch", v, <<>>, 2, NoVessel)
    BY <1>1 DEF Launch
  <2> QED
    BY <2>0, <2>1, BeginPlain, PlainEmpty, NoVesselType
<1>2. CASE iso # "mido"
  <2>1. Begin("launch", v, media \o tail, 0, c)
    BY <1>2 DEF Launch, LaunchSteps
  <2>2. vstore[v] \in VesselType
    BY DEF DiskInv, Types
  <2>3. base \in VesselType /\ base.saved
    BY <2>2, RecommendedType DEF IsoArgs, VesselType
  <2>4. cfg \in VesselType /\ cfg.saved
    <3> HIDE DEF base
    <3> QED
      BY <2>3 DEF VesselType
  <2>5. c \in VesselType /\ c.saved
    <3> HIDE DEF cfg
    <3> QED
      BY <2>4, ProvisionedType
  <2>6. a \in {<<>>, <<"allocate">>} /\ (a = <<"allocate">> => Free(v))
    <3>1. CASE new
      BY <3>1 DEF DiskInv, Unsaved, If
    <3>2. CASE ~new
      BY <3>2 DEF If, Allocates
    <3> QED
      BY <3>1, <3>2
  <2>7. Plain(m1) /\ Plain(m2)
    <3> HIDE DEF cfg
    <3>1. (iso = "distro") \in BOOLEAN /\ (cfg.os = "windows" /\ cfg.virtio) \in BOOLEAN
      OBVIOUS
    <3> QED
      BY <3>1, PlainIf, PlainOne DEF StepNames
  <2>8. Plain(m3)
    <3> HIDE DEF cfg
    <3>1. Plain(ProvisionStep(cfg))
      BY PlainOne DEF ProvisionStep, StepNames
    <3> QED
      BY <3>1, PlainIf
  <2>9. Plain(tail)
    <3>2. Plain(If(start, <<"start_anyway">>))
      BY PlainIf, PlainOne DEF StepNames
    <3> QED
      BY PlainDefine, <3>2, PlainConcat
  <2> HIDE DEF cfg, m1, m2, m3, a, tail, c
  <2>10. Plain(m1 \o m2 \o m3)
    <3>1. Plain(m1 \o m2)
      BY <2>7, PlainConcat
    <3> QED
      BY <3>1, <2>8, PlainConcat
  <2>11. media \o tail \in Seq(StepNames) /\ Sound(media \o tail, "launch", v, c)
    <3>1. /\ Saving(m1 \o m2 \o m3, a, tail) \in Seq(StepNames)
          /\ Sound(Saving(m1 \o m2 \o m3, a, tail), "launch", v, c)
      BY <2>5, <2>6, <2>9, <2>10, SaveAllocate
    <3>2. media \o tail = Saving(m1 \o m2 \o m3, a, tail)
      BY DEF Saving
    <3> QED
      BY <3>1, <3>2
  <2> HIDE DEF media
  <2> QED
    BY <2>1, <2>5, <2>11, BeginKeeps DEF CmdNames
<1> QED
  BY <1>1, <1>2

-----------------------------------------------------------------------------
(* The steps of a command *)

\* A step that is done leaves the rest of the list sound, if it keeps what the
\* rest relies on.
LEMMA RestSound ==
    ASSUME DiskInv, job.todo # <<>>, Moves, Types',
           job.on \in Vessels /\ Head(job.todo) # "allocate" /\ job.cmd # "rm" /\ Free(job.on)
               => Free(job.on)',
           job.on \in Vessels /\ job.cmd # "rm" /\ (vstore[job.on].saved \/ Head(job.todo) = "save")
               => vstore'[job.on].saved
    PROVE  Sound(job.todo, job.cmd, job.on, job.cfg)'
<1> DEFINE todo == job.todo
           rest == Tail(job.todo)
<1>1. job \in JobType /\ todo \in Seq(StepNames)
  BY DEF DiskInv, Types, JobType
<1>2. /\ job'.todo = rest /\ job'.cmd = job.cmd /\ job'.on = job.on /\ job'.cfg = job.cfg
  BY <1>1 DEF Moves, JobType
<1>3. /\ rest \in Seq(StepNames) /\ Len(rest) = Len(todo) - 1
      /\ \A i \in 1..Len(rest) : rest[i] = todo[i + 1]
      /\ Head(todo) = todo[1]
  BY <1>1, HeadTailProperties
<1>4. Len(todo) \in Nat /\ Len(todo) > 0
  BY <1>1
<1>5. Sound(todo, job.cmd, job.on, job.cfg)
  BY DEF DiskInv
<1> HIDE DEF todo, rest
<1>6. ASSUME NEW i \in 1..Len(rest)
      PROVE  i + 1 \in 1..Len(todo) /\ i \in Nat /\ rest[i] = todo[i + 1]
  BY <1>3, <1>4
<1>7. ASSUME NEW i \in 1..Len(rest), rest[i] = "allocate"
      PROVE  /\ job.on \in Vessels /\ job.cmd # "rm" /\ Free(job.on)'
             /\ \A j \in 1..Len(rest) : rest[j] = "allocate" => j = i
             /\ vstore'[job.on].saved \/ \E j \in 1..(i - 1) : rest[j] = "save"
  <2>1. i + 1 \in 1..Len(todo) /\ i \in Nat /\ todo[i + 1] = "allocate"
    BY <1>6, <1>7
  <2>2. /\ job.on \in Vessels /\ job.cmd # "rm" /\ Free(job.on)
        /\ \A j \in 1..Len(todo) : todo[j] = "allocate" => j = i + 1
        /\ vstore[job.on].saved \/ \E j \in 1..i : todo[j] = "save"
    <3>1. (i + 1) - 1 = i
      BY <2>1
    <3> QED
      BY <2>1, <3>1, <1>5 DEF Sound
  <2>3. Head(todo) # "allocate"
    BY <2>1, <2>2, <1>3, <1>4
  <2>4. Free(job.on)'
    BY <2>2, <2>3 DEF todo
  <2>5. \A j \in 1..Len(rest) : rest[j] = "allocate" => j = i
    <3> SUFFICES ASSUME NEW j \in 1..Len(rest), rest[j] = "allocate"
                 PROVE  j = i
      OBVIOUS
    <3>1. j + 1 = i + 1 /\ j \in Nat
      BY <1>6, <2>2
    <3> QED
      BY <3>1, <2>1
  <2>6. CASE vstore[job.on].saved \/ Head(todo) = "save"
    BY <2>6, <2>2, <2>4, <2>5 DEF todo
  <2>7. CASE ~vstore[job.on].saved /\ Head(todo) # "save"
    <3>1. PICK j \in 1..i : todo[j] = "save"
      BY <2>7, <2>2
    <3>2. j # 1 /\ j \in Nat
      BY <3>1, <2>7, <1>3, <2>1
    <3>3. j - 1 \in 1..(i - 1) /\ j - 1 \in 1..Len(rest) /\ (j - 1) + 1 = j
      BY <3>1, <3>2, <2>1, <1>3, <1>4
    <3>4. rest[j - 1] = "save"
      BY <3>1, <3>3, <1>6
    <3> QED
      BY <3>3, <3>4, <2>2, <2>4, <2>5
  <2> QED
    BY <2>6, <2>7
<1>8. ASSUME NEW i \in 1..Len(rest)
      PROVE  /\ rest[i] \in {"save", "save_profile"} => job.cfg.saved
             /\ rest[i] = "delete" => job.cmd = "rm"
  BY <1>5, <1>6 DEF Sound
<1> QED
  BY <1>2, <1>7, <1>8 DEF Sound, Free

\* A step that touches neither a vessel nor a disk, ends or not.
LEMMA QuietStep ==
    ASSUME DiskInv, job.todo # <<>>, UNCHANGED <<vstore, disk>>,
           (Moves /\ Head(job.todo) # "save") \/ Ends \/ job' = NoJob
    PROVE  DiskInv'
<1>1. job \in JobType
  BY DEF DiskInv, Types
<1>2. Unsaved'
  BY DEF DiskInv, Unsaved, Free
<1>3. CASE Moves /\ Head(job.todo) # "save"
  <2>1. Tail(job.todo) \in Seq(StepNames)
    BY <1>1, HeadTailProperties DEF JobType
  <2>2. Types'
    BY <1>1, <1>3, <2>1 DEF DiskInv, Types, JobType, Moves
  <2>3. job'.on = job.on
    BY <1>1, <1>3 DEF Moves, JobType
  <2>4. Sound(job.todo, job.cmd, job.on, job.cfg)'
    <3>1. Free(job.on) => Free(job.on)'
      BY <2>3 DEF Free
    <3>2. job.on \in Vessels /\ job.cmd # "rm" /\ (vstore[job.on].saved \/ Head(job.todo) = "save")
             => vstore'[job.on].saved
      BY <1>3
    <3> QED
      BY <1>3, <2>2, <3>1, <3>2, RestSound
  <2> QED
    BY <1>2, <2>2, <2>4 DEF DiskInv
<1>4. CASE Ends
  <2>1. job' = [job EXCEPT !.todo = <<>>, !.rc = 1]
    BY <1>4 DEF Ends
  <2>2. <<>> \in Seq(StepNames) /\ 1 \in Nat
    OBVIOUS
  <2>3. job'.todo = <<>>
    BY <1>1, <2>1 DEF JobType
  <2>4. job' \in JobType
    BY <1>1, <2>1, <2>2 DEF JobType
  <2> QED
    BY <1>2, <2>3, <2>4 DEF DiskInv, Types, Sound
<1>5. CASE job' = NoJob
  <2>1. job' \in JobType /\ job'.todo = <<>>
    BY <1>5, NoVesselType DEF NoJob, JobType, CmdNames
  <2> QED
    BY <1>2, <2>1 DEF DiskInv, Types, Sound
<1> QED
  BY <1>3, <1>4, <1>5

\* The vessel's record is written: it is a saved one.
LEMMA RecordStep ==
    ASSUME DiskInv, job.todo # <<>>, Head(job.todo) \in {"save", "save_profile"}, Moves,
           UNCHANGED disk, NEW rec \in VesselType, rec.saved = job.cfg.saved,
           vstore' = [vstore EXCEPT ![job.on] = rec]
    PROVE  DiskInv'
<1>1. job \in JobType /\ vstore \in [Vessels -> VesselType]
  BY DEF DiskInv, Types
<1>2. Tail(job.todo) \in Seq(StepNames) /\ Head(job.todo) = job.todo[1] /\ 1 \in 1..Len(job.todo)
  BY <1>1, HeadTailProperties DEF JobType
<1>3. rec.saved
  BY <1>2 DEF DiskInv, Sound
<1>4. Types'
  BY <1>1, <1>2 DEF DiskInv, Types, JobType, Moves
<1>5. \A v \in Vessels : vstore'[v].saved \/ vstore'[v] = vstore[v]
  BY <1>1, <1>3
<1>6. job.on \in Vessels => vstore'[job.on].saved
  BY <1>1, <1>3
<1>7. Unsaved'
  BY <1>5 DEF DiskInv, Unsaved, Free
<1>8. job'.on = job.on
  BY <1>1 DEF Moves, JobType
<1>9. Free(job.on) => Free(job.on)'
  BY <1>8 DEF Free
<1>10. Sound(job.todo, job.cmd, job.on, job.cfg)'
  BY <1>4, <1>6, <1>9, RestSound
<1> QED
  BY <1>4, <1>7, <1>10 DEF DiskInv

LEMMA SaveKeeps == DiskInv /\ SaveVessel => DiskInv'
<1> SUFFICES ASSUME DiskInv, SaveVessel PROVE DiskInv'
  OBVIOUS
<1>1. job.cfg \in VesselType
  BY DEF DiskInv, Types, JobType
<1> QED
  BY <1>1, RecordStep DEF SaveVessel, On

LEMMA SaveProfileKeeps == DiskInv /\ SaveRdpProfile => DiskInv'
<1> SUFFICES ASSUME DiskInv, SaveRdpProfile PROVE DiskInv'
  OBVIOUS
<1> DEFINE rec == [job.cfg EXCEPT !.profile = TRUE]
<1>1. job.cfg \in VesselType
  BY DEF DiskInv, Types, JobType
<1>2. rec \in VesselType /\ rec.saved = job.cfg.saved
  BY <1>1 DEF VesselType
<1>3. vstore' = [vstore EXCEPT ![job.on] = rec]
  BY DEF SaveRdpProfile
<1> HIDE DEF rec
<1> QED
  BY <1>2, <1>3, RecordStep DEF SaveRdpProfile, On

\* A disk is allocated for a saved vessel, and nothing behind it allocates.
LEMMA AllocateKeeps == DiskInv /\ Allocate => DiskInv'
<1> SUFFICES ASSUME DiskInv, Allocate PROVE DiskInv'
  OBVIOUS
<1>1. job \in JobType /\ disk \in [Vessels -> DiskStates]
  BY DEF DiskInv, Types
<1>2. job.todo # <<>> /\ Head(job.todo) = "allocate" /\ Moves /\ UNCHANGED vstore
  BY DEF Allocate, On
<1>3. Tail(job.todo) \in Seq(StepNames) /\ Head(job.todo) = job.todo[1] /\ 1 \in 1..Len(job.todo)
  BY <1>1, <1>2, HeadTailProperties DEF JobType
<1>4. /\ job.on \in Vessels
      /\ vstore[job.on].saved \/ \E j \in 1..(1 - 1) : job.todo[j] = "save"
  BY <1>2, <1>3 DEF DiskInv, Sound
<1>5. vstore[job.on].saved
  BY <1>4
<1>6. disk' \in [Vessels -> DiskStates] /\ \A v \in Vessels : v # job.on => disk'[v] = disk[v]
  BY <1>1 DEF Allocate, DiskStates
<1>7. Types'
  BY <1>1, <1>2, <1>3, <1>6 DEF DiskInv, Types, JobType, Moves
<1>8. Unsaved'
  BY <1>2, <1>5, <1>6 DEF DiskInv, Unsaved, Free
<1>9. Sound(job.todo, job.cmd, job.on, job.cfg)'
  BY <1>2, <1>5, <1>7, RestSound
<1> QED
  BY <1>7, <1>8, <1>9 DEF DiskInv

\* Only rm deletes; a list with "delete" in it allocates nothing.
LEMMA DeleteIsRm ==
    ASSUME DiskInv, On("delete")
    PROVE  job.cmd = "rm"
<1>1. job.todo \in Seq(StepNames)
  BY DEF DiskInv, Types, JobType
<1>2. job.todo # <<>> /\ Head(job.todo) = "delete"
  BY DEF On
<1>3. Head(job.todo) = job.todo[1] /\ 1 \in 1..Len(job.todo)
  BY <1>1, <1>2
<1> QED
  BY <1>2, <1>3 DEF DiskInv, Sound

LEMMA DeleteKeeps == DiskInv /\ DeleteVessel => DiskInv'
<1> SUFFICES ASSUME DiskInv, DeleteVessel PROVE DiskInv'
  OBVIOUS
<1>1. /\ job \in JobType /\ disk \in [Vessels -> DiskStates]
      /\ vstore \in [Vessels -> VesselType]
  BY DEF DiskInv, Types
<1>2. job.todo # <<>> /\ Moves /\ job.cmd = "rm"
  BY DeleteIsRm DEF DeleteVessel, On
<1>3. Tail(job.todo) \in Seq(StepNames)
  BY <1>1, <1>2, HeadTailProperties DEF JobType
<1>4. vstore' \in [Vessels -> VesselType] /\ disk' \in [Vessels -> DiskStates]
  BY <1>1, NoVesselType DEF DeleteVessel, DiskStates
<1>5. \A v \in Vessels : disk'[v] = "none" \/ (vstore'[v] = vstore[v] /\ disk'[v] = disk[v])
  BY <1>1 DEF DeleteVessel
<1>6. Types'
  BY <1>1, <1>2, <1>3, <1>4 DEF Types, JobType, Moves
<1>7. Unsaved'
  BY <1>5 DEF DiskInv, Unsaved, Free
<1>8. Sound(job.todo, job.cmd, job.on, job.cfg)'
  BY <1>2, <1>6, RestSound
<1> QED
  BY <1>6, <1>7, <1>8 DEF DiskInv

LEMMA DeleteCutKeeps == DiskInv /\ DeleteCut => DiskInv'
<1> SUFFICES ASSUME DiskInv, DeleteCut PROVE DiskInv'
  OBVIOUS
<1>1. /\ disk \in [Vessels -> DiskStates] /\ vstore \in [Vessels -> VesselType]
  BY DEF DiskInv, Types
<1>2. job' \in JobType /\ job'.todo = <<>>
  BY NoVesselType DEF DeleteCut, NoJob, JobType, CmdNames
<1>3. PICK config \in BOOLEAN, image \in BOOLEAN :
        /\ vstore' = [vstore EXCEPT ![job.on] = IF config THEN NoVessel ELSE vstore[job.on]]
        /\ disk' = [disk EXCEPT ![job.on] =
                       IF image \/ disk[job.on] = "none" THEN "none" ELSE "left"]
  BY DEF DeleteCut
<1>4. vstore' \in [Vessels -> VesselType]
  BY <1>1, <1>3, NoVesselType
<1>5. disk' \in [Vessels -> DiskStates]
  BY <1>1, <1>3 DEF DiskStates
<1>6. \A v \in Vessels : disk'[v] \in {"none", "left"} \/ (vstore'[v] = vstore[v] /\ disk'[v] = disk[v])
  BY <1>1, <1>3
<1>7. Unsaved'
  BY <1>6 DEF DiskInv, Unsaved, Free
<1> QED
  BY <1>2, <1>4, <1>5, <1>7 DEF DiskInv, Types, Sound

LEMMA GuestKeeps ==
    ASSUME DiskInv, NEW g \in Vessels, GuestInstalls(g)
    PROVE  DiskInv'
<1>1. disk \in [Vessels -> DiskStates] /\ disk[g] = "blank" /\ ~Free(g)
  BY DEF DiskInv, Types, GuestInstalls, Free
<1>2. UNCHANGED <<vstore, job>> /\ disk' = [disk EXCEPT ![g] = "installed"]
  BY DEF GuestInstalls
<1>3. \A v \in Vessels : Free(v) => disk'[v] = disk[v]
  BY <1>1, <1>2
<1>4. Types'
  BY <1>1, <1>2 DEF DiskInv, Types, DiskStates
<1>5. Unsaved'
  BY <1>2, <1>3 DEF DiskInv, Unsaved, Free
<1>6. Sound(job.todo, job.cmd, job.on, job.cfg)'
  BY <1>2, <1>3 DEF DiskInv, Sound, Free
<1> QED
  BY <1>4, <1>5, <1>6 DEF DiskInv

-----------------------------------------------------------------------------
(* The theorem *)

LEMMA DiskInit == FlotillaInit => DiskInv
<1> SUFFICES ASSUME FlotillaInit PROVE DiskInv
  OBVIOUS
<1>1. job \in JobType /\ job.todo = <<>>
  BY NoVesselType DEF FlotillaInit, NoJob, JobType, CmdNames
<1> QED
  BY <1>1, NoVesselType DEF FlotillaInit, DiskInv, Types, Unsaved, Free, Sound, DiskStates

LEMMA CommandKeeps ==
    ASSUME DiskInv, NEW v \in Vessels,
           \/ Define(v) \/ StartVessel(v) \/ Stop(v) \/ Rm(v) \/ LookAt(v) \/ ShowAddress(v)
           \/ \E mode \in {"", "rdp", "console"} : Connect(v, mode)
    PROVE  DiskInv'
<1>1. CASE Define(v)
  BY <1>1, PlainDefine, OnVesselPlain DEF Define, CmdNames
<1>2. CASE StartVessel(v)
  <2>1. Plain(<<"start">>)
    BY PlainOne DEF StepNames
  <2> QED
    BY <1>2, <2>1, OnVesselPlain DEF StartVessel, CmdNames
<1>3. CASE Stop(v)
  <2>1. Plain(<<"stop">>)
    BY PlainOne DEF StepNames
  <2> QED
    BY <1>3, <2>1, OnVesselPlain DEF Stop, CmdNames
<1>4. CASE Rm(v)
  <2>1. CASE vstore[v].saved
    <3> DEFINE todo == <<"undefine", "delete">>
    <3>1. Begin("rm", v, todo, 0, vstore[v])
      BY <1>4, <2>1 DEF Rm, OnVessel
    <3>0. "undefine" \in StepNames /\ "delete" \in StepNames
      BY DEF StepNames
    <3>2. /\ todo \in Seq(StepNames)
          /\ \A i \in 1..Len(todo) : todo[i] \in {"undefine", "delete"}
      BY <3>0, TwoSteps
    <3> HIDE DEF todo
    <3>3. Sound(todo, "rm", v, vstore[v])
      BY <3>2 DEF Sound
    <3>4. vstore[v] \in VesselType /\ "rm" \in CmdNames
      BY DEF DiskInv, Types, CmdNames
    <3> QED
      BY <3>1, <3>2, <3>3, <3>4, BeginKeeps
  <2>2. CASE ~vstore[v].saved
    <3>1. Begin("rm", v, <<>>, 1, NoVessel)
      BY <1>4, <2>2 DEF Rm, OnVessel
    <3> QED
      BY <3>1, BeginPlain, PlainEmpty, NoVesselType DEF CmdNames
  <2> QED
    BY <2>1, <2>2
<1>5. CASE LookAt(v)
  BY <1>5, OnVesselPlain, PlainEmpty DEF LookAt, CmdNames
<1>6. CASE ShowAddress(v)
  <2>1. Plain(<<"address">>)
    BY PlainOne DEF StepNames
  <2> QED
    BY <1>6, <2>1, OnVesselPlain DEF ShowAddress, CmdNames
<1>7. ASSUME NEW mode \in {"", "rdp", "console"}, Connect(v, mode)
      PROVE  DiskInv'
  <2> DEFINE todo == <<"address", "save_profile">>
  <2>1. \/ Begin("connect", v, <<>>, 2, NoVessel)
        \/ OnVessel("connect", v, todo)
        \/ OnVessel("connect", v, <<>>)
    BY <1>7 DEF Connect
  <2>0. "address" \in StepNames /\ "save_profile" \in StepNames
    BY DEF StepNames
  <2>2. /\ todo \in Seq(StepNames)
        /\ \A i \in 1..Len(todo) : todo[i] \in {"address", "save_profile"}
    BY <2>0, TwoSteps
  <2>3. "connect" \in CmdNames /\ vstore[v] \in VesselType
    BY DEF CmdNames, DiskInv, Types
  <2> HIDE DEF todo
  <2>4. CASE Begin("connect", v, <<>>, 2, NoVessel)
    BY <2>3, <2>4, BeginPlain, PlainEmpty, NoVesselType
  <2>5. CASE OnVessel("connect", v, <<>>)
    BY <2>3, <2>5, OnVesselPlain, PlainEmpty
  <2>6. CASE OnVessel("connect", v, todo)
    <3>1. CASE vstore[v].saved
      <4>1. Begin("connect", v, todo, 0, vstore[v])
        BY <2>6, <3>1 DEF OnVessel
      <4>2. Sound(todo, "connect", v, vstore[v])
        BY <2>2, <3>1 DEF Sound
      <4> QED
        BY <2>2, <2>3, <4>1, <4>2, BeginKeeps
    <3>2. CASE ~vstore[v].saved
      <4>1. Begin("connect", v, <<>>, 1, NoVessel)
        BY <2>6, <3>2 DEF OnVessel
      <4> QED
        BY <2>3, <4>1, BeginPlain, PlainEmpty, NoVesselType
    <3> QED
      BY <3>1, <3>2
  <2> QED
    BY <2>1, <2>4, <2>5, <2>6
<1> QED
  BY <1>1, <1>2, <1>3, <1>4, <1>5, <1>6, <1>7

LEMMA FetchKeeps ==
    ASSUME DiskInv, NEW image \in Images, NEW force \in BOOLEAN, Fetch(image, force)
    PROVE  DiskInv'
<1>1. PICK step \in {"again_distro", "fetch_distro", "again_virtio", "fetch_virtio"} :
        Begin("fetch", "none", <<step>>, 0, NoVessel)
  BY DEF Fetch
<1>2. Plain(<<step>>)
  BY PlainOne DEF StepNames
<1> QED
  BY <1>1, <1>2, BeginPlain, NoVesselType DEF CmdNames

\* The steps that leave vessels and disks alone.
LEMMA QuietKeeps ==
    ASSUME DiskInv,
           \/ FetchImage \/ Refuse \/ BuildUnattend \/ WriteDomainXml \/ DefineDomain
           \/ StartDomain \/ StopDomain \/ Undefine \/ Address \/ KillJob
    PROVE  DiskInv'
<1> USE QuietStep
<1>1. CASE FetchImage
  BY <1>1 DEF FetchImage, On, Fetching, StepImage
<1>2. CASE Refuse
  BY <1>2 DEF Refuse, On
<1>3. CASE BuildUnattend
  BY <1>3 DEF BuildUnattend, BuildFails, On
<1>4. CASE WriteDomainXml
  BY <1>4 DEF WriteDomainXml, On
<1>5. CASE DefineDomain
  BY <1>5 DEF DefineDomain, On
<1>6. CASE StartDomain
  BY <1>6 DEF StartDomain, On
<1>7. CASE StopDomain
  BY <1>7 DEF StopDomain, On
<1>8. CASE Undefine
  BY <1>8 DEF Undefine, On
<1>9. CASE Address
  BY <1>9 DEF Address, On
<1>10. CASE KillJob
  BY <1>10 DEF KillJob
<1> QED
  BY <1>1, <1>2, <1>3, <1>4, <1>5, <1>6, <1>7, <1>8, <1>9, <1>10

LEMMA DiskNext == DiskInv /\ [FlotillaNext]_flotillaVars => DiskInv'
<1> SUFFICES ASSUME DiskInv, [FlotillaNext]_flotillaVars PROVE DiskInv'
  OBVIOUS
<1>1. CASE UNCHANGED <<vstore, disk, job>>
  BY <1>1 DEF DiskInv, Types, Unsaved, Sound, Free
<1>2. ASSUME NEW v \in Vessels, NEW os \in Oses, NEW provision \in BOOLEAN,
             NEW allocate \in BOOLEAN, NEW iso \in {"", "path"},
             CreateVessel(v, os, iso, provision, allocate)
      PROVE  DiskInv'
  <2>1. iso \in IsoArgs
    BY DEF IsoArgs
  <2> QED
    BY <1>2, <2>1, CreateKeeps
<1>3. ASSUME NEW v \in Vessels, NEW os \in Oses, NEW provision \in BOOLEAN,
             NEW allocate \in BOOLEAN, NEW iso \in IsoArgs, NEW start \in BOOLEAN,
             Launch(v, os, iso, provision, allocate, start)
      PROVE  DiskInv'
  BY <1>3, LaunchKeeps
<1>4. ASSUME NEW v \in Vessels, GuestStops(v)
      PROVE  DiskInv'
  BY <1>4, <1>1 DEF GuestStops
<1> QED
  BY ZenonT(40), <1>1, <1>2, <1>3, <1>4, CommandKeeps, GuestKeeps, FetchKeeps, QuietKeeps, SaveKeeps,
     SaveProfileKeeps, AllocateKeeps, DeleteKeeps, DeleteCutKeeps DEF FlotillaNext, flotillaVars

\* What one step may do to a disk with a system on it.
KeepsDisks == \A v \in Vessels : disk[v] = "installed" =>
                 disk'[v] # "blank" /\ (disk'[v] = "installed" \/ job.cmd = "rm")

LEMMA StepKeepsDisks == DiskInv /\ [FlotillaNext]_flotillaVars => KeepsDisks
<1> SUFFICES ASSUME DiskInv, [FlotillaNext]_flotillaVars, NEW v \in Vessels, disk[v] = "installed"
             PROVE  disk'[v] # "blank" /\ (disk'[v] = "installed" \/ job.cmd = "rm")
  BY DEF KeepsDisks
<1>0. disk \in [Vessels -> DiskStates]
  BY DEF DiskInv, Types
<1>1. CASE UNCHANGED disk
  BY <1>1
<1>2. CASE Allocate
  <2>1. job.todo \in Seq(StepNames) /\ job.todo # <<>> /\ Head(job.todo) = "allocate"
    BY <1>2 DEF Allocate, On, DiskInv, Types, JobType
  <2>2. Head(job.todo) = job.todo[1] /\ 1 \in 1..Len(job.todo)
    BY <2>1
  <2>3. Free(job.on)
    BY <2>1, <2>2 DEF DiskInv, Sound
  <2>4. job.on # v
    BY <2>3 DEF Free
  <2> QED
    BY <1>0, <1>2, <2>4 DEF Allocate
<1>3. CASE DeleteVessel
  <2>1. job.cmd = "rm"
    BY <1>3, DeleteIsRm DEF DeleteVessel
  <2> QED
    BY <1>0, <1>3, <2>1 DEF DeleteVessel
<1>4. CASE DeleteCut
  <2>1. job.cmd = "rm"
    BY <1>4, DeleteIsRm DEF DeleteCut
  <2> QED
    BY <1>0, <1>4, <2>1 DEF DeleteCut
<1>5. ASSUME NEW g \in Vessels, GuestInstalls(g)
      PROVE  disk'[v] = "installed"
  BY <1>0, <1>5 DEF GuestInstalls
<1>6. UNCHANGED disk \/ Allocate \/ DeleteVessel \/ DeleteCut \/ \E g \in Vessels : GuestInstalls(g)
  <2>1. ASSUME NEW c, NEW u, NEW todo, NEW rc, NEW cfg, Begin(c, u, todo, rc, cfg)
        PROVE  UNCHANGED disk
    BY <2>1 DEF Begin
  <2>2. ASSUME NEW c, NEW u, NEW todo, OnVessel(c, u, todo)
        PROVE  UNCHANGED disk
    BY <2>1, <2>2 DEF OnVessel
  <2>3. ASSUME NEW u, NEW os, NEW provision, NEW allocate, NEW iso,
               CreateVessel(u, os, iso, provision, allocate)
        PROVE  UNCHANGED disk
    BY <2>1, <2>3 DEF CreateVessel
  <2>4. ASSUME NEW u, NEW os, NEW provision, NEW allocate, NEW iso, NEW start,
               Launch(u, os, iso, provision, allocate, start)
        PROVE  UNCHANGED disk
    BY <2>1, <2>4 DEF Launch
  <2>5. ASSUME NEW u, \/ Define(u) \/ StartVessel(u) \/ Stop(u) \/ Rm(u) \/ LookAt(u)
                      \/ ShowAddress(u)
        PROVE  UNCHANGED disk
    BY <2>2, <2>5 DEF Define, StartVessel, Stop, Rm, LookAt, ShowAddress
  <2>6. ASSUME NEW u, NEW mode, Connect(u, mode)
        PROVE  UNCHANGED disk
    BY <2>1, <2>2, <2>6 DEF Connect
  <2>7. ASSUME NEW image, NEW force, Fetch(image, force)
        PROVE  UNCHANGED disk
    BY <2>1, <2>7 DEF Fetch
  <2>8. ASSUME NEW u, GuestStops(u)
        PROVE  UNCHANGED disk
    BY <2>8 DEF GuestStops
  <2>9. ASSUME \/ FetchImage \/ Refuse \/ BuildUnattend \/ SaveVessel \/ WriteDomainXml
               \/ DefineDomain \/ StartDomain \/ StopDomain \/ Undefine \/ Address
               \/ SaveRdpProfile \/ KillJob
        PROVE  UNCHANGED disk
    BY <2>9 DEF FetchImage, Refuse, BuildUnattend, SaveVessel, WriteDomainXml, DefineDomain,
                StartDomain, StopDomain, Undefine, Address, SaveRdpProfile, KillJob
  <2>10. CASE UNCHANGED flotillaVars
    BY <2>10 DEF flotillaVars
  <2>11. CASE FlotillaNext
    BY <2>3, <2>4, <2>5, <2>6, <2>7, <2>8, <2>9, <2>11 DEF FlotillaNext
  <2> QED
    BY <2>10, <2>11
<1> QED
  BY <1>1, <1>2, <1>3, <1>4, <1>5, <1>6

\* For every set of vessels and any number of commands, failing tools and kills:
\* no command allocates over a disk a guest has installed itself on, and none
\* but rm takes it away (launch allocates for a new vessel only).
THEOREM DisksAreKept == FlotillaSpec => DiskKept
<1>1. DiskInv /\ [FlotillaNext]_flotillaVars => [KeepsDisks]_flotillaVars
  BY StepKeepsDisks
<1>2. DiskKept <=> [][KeepsDisks]_flotillaVars
  BY DEF DiskKept, KeepsDisks
<1> QED
  BY <1>1, <1>2, DiskInit, DiskNext, PTL DEF FlotillaSpec

-----------------------------------------------------------------------------
(* The vessels, their ISOs and their domains. *)

\* In which order the steps of a command come.
Rank == [fetch_distro |-> 1, fetch_virtio |-> 1, again_distro |-> 1, again_virtio |-> 1,
         build_unattend |-> 1, refuse |-> 1, save |-> 2, allocate |-> 3, write_xml |-> 4,
         define |-> 5, start |-> 6, start_anyway |-> 6, stop |-> 6, undefine |-> 7,
         address |-> 7, delete |-> 8, save_profile |-> 8]

Has(s, x) == \E i \in 1..Len(s) : s[i] = x

\* The steps of s come in order and their ranks are from a to b.
Between(s, a, b) ==
    /\ s \in Seq(StepNames)
    /\ \A i \in 1..Len(s) : a <= Rank[s[i]] /\ Rank[s[i]] <= b
    /\ \A i, j \in 1..Len(s) : i <= j => Rank[s[i]] <= Rank[s[j]]

InTodo(x) == Has(job.todo, x)

Domains == [os : Oses \cup {"none"}, iso : IsoArgs, virtio : BOOLEAN, provisioned : BOOLEAN]

VesselTypes ==
    /\ unattend \in [Vessels -> {"none", "whole", "left"}]
    /\ cache \in [Images -> {"none", "cut", "whole"}]
    /\ xml \in [Vessels -> Domains] /\ domain \in [Vessels -> Domains]
    /\ running \subseteq Vessels /\ rdpProfiles \subseteq Vessels
    /\ toolFaults \in Nat

\* The steps are those of their command, and only the image steps have no
\* vessel.
StepsFit ==
    /\ Between(job.todo, 1, 8)
    /\ \A x \in StepNames \ Fetching : InTodo(x) => job.on \in Vessels
    /\ InTodo("save") => job.cmd \in {"create", "launch"}
    /\ InTodo("define") => job.cmd \in {"launch", "define"} /\ job.rc = 0
    /\ InTodo("undefine") \/ InTodo("delete") => job.cmd = "rm"
    /\ InTodo("save_profile") => job.cmd = "connect"
    /\ job.cmd = "launch" /\ InTodo("save") => InTodo("define")

Guest(cfg) == cfg.os = "linux" => ~cfg.provisioned /\ cfg.entry = "console"

\* The same vessel but for the profile that connect has saved.
Alike(c, d) == /\ c.saved = d.saved /\ c.os = d.os /\ c.iso = d.iso /\ c.virtio = d.virtio
               /\ c.provisioned = d.provisioned /\ c.entry = d.entry

\* What a command will record may be recorded, unless it is refused first.
CfgFits ==
    /\ \A v \in Vessels : Guest(vstore[v]) /\ (vstore[v].provisioned => unattend[v] # "none")
    /\ InTodo("save") => \/ InTodo("refuse")
                         \/ /\ Guest(job.cfg)
                            /\ job.cfg.provisioned =>
                                  InTodo("build_unattend") \/ unattend[job.on] # "none"
    /\ InTodo("save_profile") => Alike(vstore[job.on], job.cfg)

\* What a launch or a define has still to do of its own.
Launching ==
    job.cmd \in {"launch", "define"} /\ job.rc = 0 =>
        /\ job.on \in Vessels /\ job.cfg.saved
        /\ InTodo("save") \/ vstore[job.on] = job.cfg
        /\ InTodo("write_xml") \/ xml[job.on] = CompileDomain(job.cfg)
        /\ InTodo("define") \/ domain[job.on] = CompileDomain(job.cfg)

Matches(v) == domain[v] # NoDomain => vstore[v].saved /\ domain[v] = CompileDomain(vstore[v])

\* As long as no tool has failed, only a command on its way to "define" can
\* have left a vessel ahead of its domain.
DomainsFit ==
    toolFaults = 0 =>
        /\ \A v \in Vessels : \/ Matches(v)
                              \/ v = job.on /\ InTodo("define") /\ ~InTodo("refuse")
        /\ job.cmd = "create" /\ InTodo("save") => domain[job.on] = NoDomain
        /\ InTodo("delete") => InTodo("undefine") \/ domain[job.on] = NoDomain

FleetInv == DiskInv /\ VesselTypes /\ StepsFit /\ CfgFits /\ Launching /\ DomainsFit

\* The ranks are numbers.
LEMMA RankType == \A x \in StepNames : Rank[x] \in Nat /\ 1 <= Rank[x] /\ Rank[x] <= 8
BY DEF Rank, StepNames

\* The empty list of steps, and one of a single step.
LEMMA BetweenNone ==
    /\ \A a, b : Between(<<>>, a, b)
    /\ \A x : ~Has(<<>>, x)
BY DEF Between, Has

LEMMA BetweenOne ==
    ASSUME NEW x \in StepNames, NEW a \in Nat, NEW b \in Nat, a <= Rank[x], Rank[x] <= b
    PROVE  Between(<<x>>, a, b) /\ \A y : Has(<<x>>, y) <=> y = x
<1>1. Len(<<x>>) = 1 /\ <<x>>[1] = x /\ <<x>> \in Seq(StepNames)
  OBVIOUS
<1>2. \A i \in 1..1 : i = 1
  OBVIOUS
<1>3. Rank[x] \in Nat
  BY RankType
<1> QED
  BY <1>1, <1>2, <1>3 DEF Between, Has

\* Two lists one behind the other.
LEMMA BetweenConcat ==
    ASSUME NEW s, NEW t, NEW a \in Nat, NEW b \in Nat, NEW c \in Nat, NEW d \in Nat,
           Between(s, a, b), Between(t, c, d), b <= c
    PROVE  /\ a <= b /\ c <= d => Between(s \o t, a, d)
           /\ \A x : Has(s \o t, x) <=> Has(s, x) \/ Has(t, x)
<1>1. s \in Seq(StepNames) /\ t \in Seq(StepNames) /\ Len(s) \in Nat /\ Len(t) \in Nat
  BY DEF Between
<1>2. /\ s \o t \in Seq(StepNames) /\ Len(s \o t) = Len(s) + Len(t)
      /\ \A i \in 1..(Len(s) + Len(t)) :
            (s \o t)[i] = IF i <= Len(s) THEN s[i] ELSE t[i - Len(s)]
  BY <1>1, ConcatSteps
<1>3. \A i \in 1..Len(s \o t) :
         \/ i \in 1..Len(s) /\ (s \o t)[i] = s[i]
         \/ i - Len(s) \in 1..Len(t) /\ i > Len(s) /\ (s \o t)[i] = t[i - Len(s)]
  BY <1>1, <1>2
<1>4. \A x : Has(s \o t, x) <=> Has(s, x) \/ Has(t, x)
  <2>1. \A x : Has(s \o t, x) => Has(s, x) \/ Has(t, x)
    BY <1>3 DEF Has
  <2>2. \A x : Has(s, x) => Has(s \o t, x)
    BY <1>1, <1>2 DEF Has
  <2>3. ASSUME NEW x, Has(t, x) PROVE Has(s \o t, x)
    <3>1. PICK j \in 1..Len(t) : t[j] = x
      BY <2>3 DEF Has
    <3>2. j + Len(s) \in 1..(Len(s) + Len(t)) /\ ~(j + Len(s) <= Len(s)) /\ (j + Len(s)) - Len(s) = j
      BY <1>1
    <3>3. (s \o t)[j + Len(s)] = x
      BY <1>2, <3>1, <3>2
    <3> QED
      BY <1>2, <3>2, <3>3 DEF Has
  <2> QED
    BY <2>1, <2>2, <2>3
<1>5. ASSUME a <= b, c <= d PROVE Between(s \o t, a, d)
  <2>1. /\ \A i \in 1..Len(s) : s[i] \in StepNames
        /\ \A i \in 1..Len(t) : t[i] \in StepNames
    BY <1>1
  <2>2. /\ \A i \in 1..Len(s) : Rank[s[i]] \in Nat /\ a <= Rank[s[i]] /\ Rank[s[i]] <= b
        /\ \A i \in 1..Len(t) : Rank[t[i]] \in Nat /\ c <= Rank[t[i]] /\ Rank[t[i]] <= d
    BY <2>1, RankType DEF Between
  <2>3. \A i \in 1..Len(s \o t) : a <= Rank[(s \o t)[i]] /\ Rank[(s \o t)[i]] <= d
    BY <1>3, <1>5, <2>2, SMTT(30)
  <2>4. ASSUME NEW i \in 1..Len(s \o t), NEW j \in 1..Len(s \o t), i <= j
        PROVE  Rank[(s \o t)[i]] <= Rank[(s \o t)[j]]
    <3>1. CASE i \in 1..Len(s) /\ j \in 1..Len(s)
      BY <1>1, <1>2, <2>4, <3>1 DEF Between
    <3>2. CASE i \in 1..Len(s) /\ j - Len(s) \in 1..Len(t) /\ j > Len(s)
      <4>1. (s \o t)[i] = s[i] /\ (s \o t)[j] = t[j - Len(s)]
        BY <1>1, <1>2, <3>2
      <4> QED
        BY <2>2, <3>2, <4>1, SMTT(30)
    <3>3. CASE i - Len(s) \in 1..Len(t) /\ i > Len(s)
      <4>1. j - Len(s) \in 1..Len(t) /\ j > Len(s) /\ i - Len(s) <= j - Len(s)
        BY <1>1, <1>2, <2>4, <3>3
      <4>2. (s \o t)[i] = t[i - Len(s)] /\ (s \o t)[j] = t[j - Len(s)]
        BY <1>1, <1>2, <3>3, <4>1
      <4> QED
        BY <3>3, <4>1, <4>2 DEF Between
    <3> QED
      BY <1>3, <2>4, <3>1, <3>2, <3>3
  <2> QED
    BY <1>2, <2>3, <2>4 DEF Between
<1> QED
  BY <1>4, <1>5

\* Steps that are taken only under a condition.
LEMMA BetweenIf ==
    ASSUME NEW c \in BOOLEAN, NEW s, NEW a, NEW b, Between(s, a, b)
    PROVE  Between(If(c, s), a, b) /\ \A x : Has(If(c, s), x) <=> c /\ Has(s, x)
BY BetweenNone DEF If

\* What taking the first step off the list leaves.
LEMMA MovesFacts ==
    ASSUME job \in JobType, Between(job.todo, 1, 8), NEW h, On(h)
    PROVE  /\ h \in StepNames /\ InTodo(h)
           /\ \A x \in StepNames : InTodo(x) => Rank[h] <= Rank[x]
           /\ Moves => /\ job'.todo = Tail(job.todo) /\ job'.cmd = job.cmd /\ job'.on = job.on
                       /\ job'.rc = job.rc /\ job'.cfg = job.cfg
                       /\ Between(job'.todo, 1, 8)
                       /\ \A x : InTodo(x) <=> x = h \/ Has(job'.todo, x)
<1> DEFINE q == job.todo
<1>1. q \in Seq(StepNames) /\ q # <<>> /\ Head(q) = h
  BY DEF JobType, On
<1>2. /\ h = q[1] /\ 1 \in 1..Len(q) /\ Len(q) \in Nat
      /\ Tail(q) \in Seq(StepNames) /\ Len(Tail(q)) = Len(q) - 1
      /\ \A i \in 1..Len(Tail(q)) : Tail(q)[i] = q[i + 1] /\ i + 1 \in 1..Len(q)
  BY <1>1
<1>3. h \in StepNames /\ InTodo(h)
  BY <1>1, <1>2 DEF InTodo, Has
<1>4. \A x \in StepNames : InTodo(x) => Rank[h] <= Rank[x]
  BY <1>2 DEF InTodo, Has, Between
<1>5. Between(Tail(q), 1, 8)
  <2>1. \A i \in 1..Len(Tail(q)) : 1 <= Rank[Tail(q)[i]] /\ Rank[Tail(q)[i]] <= 8
    BY <1>2 DEF Between
  <2>2. ASSUME NEW i \in 1..Len(Tail(q)), NEW j \in 1..Len(Tail(q)), i <= j
        PROVE  Rank[Tail(q)[i]] <= Rank[Tail(q)[j]]
    <3>1. i + 1 <= j + 1
      BY <2>2
    <3> QED
      BY <1>2, <3>1 DEF Between
  <2> QED
    BY <1>2, <2>1, <2>2 DEF Between
<1>6. \A x : InTodo(x) <=> x = h \/ Has(Tail(q), x)
  <2>1. ASSUME NEW x, InTodo(x), x # h PROVE Has(Tail(q), x)
    <3>1. PICK i \in 1..Len(q) : q[i] = x
      BY <2>1 DEF InTodo, Has
    <3>2. i # 1
      BY <1>2, <2>1, <3>1
    <3>3. i - 1 \in 1..Len(Tail(q)) /\ (i - 1) + 1 = i
      BY <1>2, <3>2
    <3>4. Tail(q)[i - 1] = x
      BY <1>2, <3>1, <3>3
    <3> QED
      BY <3>3, <3>4 DEF Has
  <2>2. \A x : Has(Tail(q), x) => InTodo(x)
    BY <1>2 DEF InTodo, Has
  <2> QED
    BY <1>3, <2>1, <2>2
<1>7. ASSUME Moves
      PROVE  /\ job'.todo = Tail(job.todo) /\ job'.cmd = job.cmd /\ job'.on = job.on
             /\ job'.rc = job.rc /\ job'.cfg = job.cfg
  BY <1>7 DEF Moves, JobType
<1> QED
  BY <1>3, <1>4, <1>5, <1>6, <1>7

\* A command that begins.
LEMMA BeginFleet ==
    ASSUME FleetInv, DiskInv', NEW cmd, NEW v, NEW todo, NEW rc, NEW cfg,
           Begin(cmd, v, todo, rc, cfg), Between(todo, 1, 8),
           \A x \in StepNames \ Fetching : Has(todo, x) => v \in Vessels,
           Has(todo, "save") => cmd \in {"create", "launch"},
           Has(todo, "define") => cmd \in {"launch", "define"} /\ rc = 0,
           Has(todo, "undefine") \/ Has(todo, "delete") => cmd = "rm",
           Has(todo, "delete") => Has(todo, "undefine"),
           Has(todo, "save_profile") => cmd = "connect" /\ cfg = vstore[v],
           cmd = "launch" /\ Has(todo, "save") => Has(todo, "define"),
           Has(todo, "save") => \/ Has(todo, "refuse")
                                \/ /\ Guest(cfg)
                                   /\ cfg.provisioned =>
                                         Has(todo, "build_unattend") \/ unattend[v] # "none",
           cmd \in {"launch", "define"} /\ rc = 0 =>
              /\ v \in Vessels /\ cfg.saved /\ Has(todo, "write_xml") /\ Has(todo, "define")
              /\ Has(todo, "save") \/ vstore[v] = cfg,
           cmd = "create" /\ Has(todo, "save") => v \in Vessels /\ ~vstore[v].saved
    PROVE  FleetInv'
<1>1. /\ job'.cmd = cmd /\ job'.on = v /\ job'.todo = todo /\ job'.rc = rc /\ job'.cfg = cfg
      /\ UNCHANGED <<vstore, unattend, xml, domain, running, cache, rdpProfiles, toolFaults>>
      /\ job.todo = <<>>
  BY DEF Begin
<1>2. \A x : ~InTodo(x) /\ (InTodo(x)' <=> Has(todo, x))
  BY <1>1, BetweenNone DEF InTodo
<1>3. VesselTypes'
  BY <1>1 DEF FleetInv, VesselTypes
<1>4. StepsFit'
  BY <1>1, <1>2 DEF StepsFit
<1>5. CfgFits'
  BY <1>1, <1>2 DEF FleetInv, CfgFits, Guest, Alike
<1>6. Launching'
  BY <1>1, <1>2 DEF Launching
<1>7. \A u \in Vessels : toolFaults = 0 => Matches(u)
  BY <1>2 DEF FleetInv, DomainsFit
<1>8. DomainsFit'
  BY <1>1, <1>2, <1>7 DEF DomainsFit, Matches
<1> QED
  BY <1>3, <1>4, <1>5, <1>6, <1>8 DEF FleetInv

\* A command that ends at once.
LEMMA RefusedFleet ==
    ASSUME FleetInv, DiskInv', NEW cmd, NEW v, NEW rc \in {1, 2}, Begin(cmd, v, <<>>, rc, NoVessel)
    PROVE  FleetInv'
<1>1. Between(<<>>, 1, 8) /\ \A x : ~Has(<<>>, x)
  BY BetweenNone
<1>2. rc # 0
  OBVIOUS
<1> QED
  BY <1>1, <1>2, BeginFleet

\* Two steps.
LEMMA BetweenTwo ==
    ASSUME NEW x \in StepNames, NEW y \in StepNames, NEW a \in Nat, NEW b \in Nat,
           a <= Rank[x], Rank[x] <= Rank[y], Rank[y] <= b
    PROVE  Between(<<x, y>>, a, b) /\ \A z : Has(<<x, y>>, z) <=> z = x \/ z = y
<1>1. Len(<<x, y>>) = 2 /\ <<x, y>>[1] = x /\ <<x, y>>[2] = y /\ <<x, y>> \in Seq(StepNames)
  OBVIOUS
<1>2. \A i \in 1..2 : i = 1 \/ i = 2
  OBVIOUS
<1>3. Rank[x] \in Nat /\ Rank[y] \in Nat
  BY RankType
<1> DEFINE s == <<x, y>>
<1>4. Len(s) = 2 /\ s[1] = x /\ s[2] = y /\ s \in Seq(StepNames)
  BY <1>1
<1> HIDE DEF s
<1>5. Between(s, a, b)
  BY <1>2, <1>3, <1>4 DEF Between
<1>6. \A z : Has(s, z) <=> z = x \/ z = y
  BY <1>2, <1>4 DEF Has
<1> QED
  BY <1>5, <1>6 DEF s

\* The pairs of steps there are.
LEMMA Pairs ==
    /\ Between(<<"write_xml", "define">>, 4, 5)
    /\ Between(<<"write_xml", "define">>, 1, 8)
    /\ \A z : Has(<<"write_xml", "define">>, z) <=> z = "write_xml" \/ z = "define"
    /\ Between(<<"undefine", "delete">>, 1, 8)
    /\ \A z : Has(<<"undefine", "delete">>, z) <=> z = "undefine" \/ z = "delete"
    /\ Between(<<"address", "save_profile">>, 1, 8)
    /\ \A z : Has(<<"address", "save_profile">>, z) <=> z = "address" \/ z = "save_profile"
<1>1. /\ "write_xml" \in StepNames /\ "define" \in StepNames
      /\ "undefine" \in StepNames /\ "delete" \in StepNames
      /\ "address" \in StepNames /\ "save_profile" \in StepNames
  BY DEF StepNames
<1>2. /\ 4 <= Rank["write_xml"] /\ Rank["write_xml"] <= Rank["define"] /\ Rank["define"] <= 5
      /\ 1 <= Rank["write_xml"] /\ Rank["define"] <= 8
      /\ 1 <= Rank["undefine"] /\ Rank["undefine"] <= Rank["delete"] /\ Rank["delete"] <= 8
      /\ 1 <= Rank["address"] /\ Rank["address"] <= Rank["save_profile"] /\ Rank["save_profile"] <= 8
  BY DEF Rank
<1>3. 1 \in Nat /\ 4 \in Nat /\ 5 \in Nat /\ 8 \in Nat
  OBVIOUS
<1>4. Between(<<"write_xml", "define">>, 4, 5)
  BY <1>1, <1>2, <1>3, BetweenTwo
<1>5. /\ Between(<<"write_xml", "define">>, 1, 8)
      /\ \A z : Has(<<"write_xml", "define">>, z) <=> z = "write_xml" \/ z = "define"
  BY <1>1, <1>2, <1>3, BetweenTwo
<1>6. /\ Between(<<"undefine", "delete">>, 1, 8)
      /\ \A z : Has(<<"undefine", "delete">>, z) <=> z = "undefine" \/ z = "delete"
  BY <1>1, <1>2, <1>3, BetweenTwo
<1>7. /\ Between(<<"address", "save_profile">>, 1, 8)
      /\ \A z : Has(<<"address", "save_profile">>, z) <=> z = "address" \/ z = "save_profile"
  BY <1>1, <1>2, <1>3, BetweenTwo
<1> QED
  BY <1>4, <1>5, <1>6, <1>7

\* A wider range of ranks.
LEMMA BetweenWide ==
    ASSUME NEW s, NEW a \in Nat, NEW b \in Nat, Between(s, a, b), 1 <= a, b <= 8
    PROVE  Between(s, 1, 8)
<1>1. \A i \in 1..Len(s) : s[i] \in StepNames
  BY DEF Between
<1>2. \A i \in 1..Len(s) : Rank[s[i]] \in Nat
  BY <1>1, RankType
<1> QED
  BY <1>2 DEF Between

\* A command on a vessel that is saved, and does not save it anew.
LEMMA OnVesselFleet ==
    ASSUME FleetInv, DiskInv', NEW cmd, NEW v \in Vessels, NEW todo, OnVessel(cmd, v, todo),
           Between(todo, 1, 8), ~Has(todo, "save"), cmd # "launch",
           Has(todo, "define") => cmd = "define",
           Has(todo, "undefine") \/ Has(todo, "delete") => cmd = "rm",
           Has(todo, "delete") => Has(todo, "undefine"),
           Has(todo, "save_profile") => cmd = "connect",
           cmd = "define" => Has(todo, "write_xml") /\ Has(todo, "define")
    PROVE  FleetInv'
<1>1. CASE vstore[v].saved
  <2>1. Begin(cmd, v, todo, 0, vstore[v])
    BY <1>1 DEF OnVessel
  <2> QED
    BY <1>1, <2>1, BeginFleet
<1>2. CASE ~vstore[v].saved
  <2>1. Begin(cmd, v, <<>>, 1, NoVessel)
    BY <1>2 DEF OnVessel
  <2> QED
    BY <2>1, RefusedFleet
<1> QED
  BY <1>1, <1>2

LEMMA CommandFleet ==
    ASSUME FleetInv, DiskInv', NEW v \in Vessels,
           \/ Define(v) \/ StartVessel(v) \/ Stop(v) \/ Rm(v) \/ LookAt(v) \/ ShowAddress(v)
           \/ \E mode \in {"", "rdp", "console"} : Connect(v, mode)
    PROVE  FleetInv'
<1>0. /\ Between(<<>>, 1, 8) /\ \A x : ~Has(<<>>, x)
  BY BetweenNone
<1>1. ASSUME NEW x \in StepNames
      PROVE  Between(<<x>>, 1, 8) /\ \A y : Has(<<x>>, y) <=> y = x
  BY RankType, BetweenOne
<1>2. CASE Define(v)
  <2> DEFINE todo == <<"write_xml", "define">>
  <2>1. Between(todo, 1, 8) /\ \A z : Has(todo, z) <=> z = "write_xml" \/ z = "define"
    BY Pairs
  <2>2. OnVessel("define", v, todo)
    BY <1>2 DEF Define
  <2> HIDE DEF todo
  <2> QED
    BY <2>1, <2>2, OnVesselFleet
<1>3. CASE StartVessel(v)
  <2>1. "start" \in StepNames
    BY DEF StepNames
  <2>2. Between(<<"start">>, 1, 8) /\ \A y : Has(<<"start">>, y) <=> y = "start"
    BY <1>1, <2>1
  <2> QED
    BY <1>3, <2>2, OnVesselFleet DEF StartVessel
<1>4. CASE Stop(v)
  <2>1. "stop" \in StepNames
    BY DEF StepNames
  <2>2. Between(<<"stop">>, 1, 8) /\ \A y : Has(<<"stop">>, y) <=> y = "stop"
    BY <1>1, <2>1
  <2> QED
    BY <1>4, <2>2, OnVesselFleet DEF Stop
<1>5. CASE Rm(v)
  <2> DEFINE todo == <<"undefine", "delete">>
  <2>1. Between(todo, 1, 8) /\ \A z : Has(todo, z) <=> z = "undefine" \/ z = "delete"
    BY Pairs
  <2>2. OnVessel("rm", v, todo)
    BY <1>5 DEF Rm
  <2> HIDE DEF todo
  <2> QED
    BY <2>1, <2>2, OnVesselFleet
<1>6. CASE LookAt(v)
  BY <1>0, <1>6, OnVesselFleet DEF LookAt
<1>7. CASE ShowAddress(v)
  <2>1. "address" \in StepNames
    BY DEF StepNames
  <2>2. Between(<<"address">>, 1, 8) /\ \A y : Has(<<"address">>, y) <=> y = "address"
    BY <1>1, <2>1
  <2> QED
    BY <1>7, <2>2, OnVesselFleet DEF ShowAddress
<1>8. ASSUME NEW mode \in {"", "rdp", "console"}, Connect(v, mode) PROVE FleetInv'
  <2> DEFINE todo == <<"address", "save_profile">>
  <2>2. Between(todo, 1, 8) /\ \A z : Has(todo, z) <=> z = "address" \/ z = "save_profile"
    BY Pairs
  <2>3. \/ Begin("connect", v, <<>>, 2, NoVessel)
        \/ OnVessel("connect", v, todo)
        \/ OnVessel("connect", v, <<>>)
    BY <1>8 DEF Connect
  <2> HIDE DEF todo
  <2>5. CASE OnVessel("connect", v, todo)
    BY <2>2, <2>5, OnVesselFleet
  <2>6. CASE OnVessel("connect", v, <<>>)
    BY <1>0, <2>6, OnVesselFleet
  <2>7. CASE Begin("connect", v, <<>>, 2, NoVessel)
    BY <2>7, RefusedFleet
  <2> QED
    BY <2>3, <2>5, <2>6, <2>7
<1> QED
  BY <1>2, <1>3, <1>4, <1>5, <1>6, <1>7, <1>8

LEMMA FetchFleet ==
    ASSUME FleetInv, DiskInv', NEW image \in Images, NEW force \in BOOLEAN, Fetch(image, force)
    PROVE  FleetInv'
<1>1. PICK step \in {"again_distro", "fetch_distro", "again_virtio", "fetch_virtio"} :
        Begin("fetch", "none", <<step>>, 0, NoVessel)
  BY DEF Fetch
<1>2. step \in StepNames /\ step \in Fetching
  BY DEF StepNames, Fetching, StepImage
<1>3. Between(<<step>>, 1, 8) /\ \A y : Has(<<step>>, y) <=> y = step
  BY <1>2, RankType, BetweenOne
<1>4. step \notin {"save", "define", "undefine", "delete", "save_profile"}
  OBVIOUS
<1> QED
  BY <1>1, <1>2, <1>3, <1>4, BeginFleet

LEMMA RecommendedGuest ==
    ASSUME NEW os \in Oses, NEW iso \in IsoArgs
    PROVE  LET c == Recommended(os, iso)
           IN  Guest(c) /\ c.os = os /\ ~c.provisioned /\ c.entry = "console"
BY DEF Recommended, NoVessel, Guest

LEMMA ProvisionedGuest ==
    ASSUME NEW cfg \in VesselType
    PROVE  /\ Provisioned(cfg).os = cfg.os /\ Provisioned(cfg).provisioned
           /\ cfg.os # "linux" => Guest(Provisioned(cfg))
BY DEF Provisioned, VesselType, Guest

LEMMA CreateFleet ==
    ASSUME FleetInv, DiskInv', NEW v \in Vessels, NEW os \in Oses, NEW iso \in IsoArgs,
           NEW provision \in BOOLEAN, NEW allocate \in BOOLEAN,
           CreateVessel(v, os, iso, provision, allocate)
    PROVE  FleetInv'
<1> DEFINE p == If(provision, <<"build_unattend">>)
           a == If(allocate, <<"allocate">>)
           cfg == Recommended(os, iso)
           c == IF provision THEN Provisioned(cfg) ELSE cfg
           ps == p \o <<"save">>
           steps == ps \o a
<1>1. CASE vstore[v].saved \/ (provision /\ os # "windows")
  <2>1. Begin("create", v, <<>>, 1, NoVessel)
    BY <1>1 DEF CreateVessel
  <2> QED
    BY <2>1, RefusedFleet
<1>2. CASE ~(vstore[v].saved \/ (provision /\ os # "windows"))
  <2>1. Begin("create", v, steps, 0, c)
    BY <1>2 DEF CreateVessel
  <2>2. Guest(c) /\ (c.provisioned => provision)
    <3>1. cfg \in VesselType /\ cfg.os = os /\ Guest(cfg) /\ ~cfg.provisioned
      BY RecommendedType, RecommendedGuest
    <3> HIDE DEF cfg
    <3>2. Provisioned(cfg).os = os /\ (os # "linux" => Guest(Provisioned(cfg)))
      BY <3>1, ProvisionedGuest
    <3>3. provision => os # "linux"
      BY <1>2
    <3> QED
      BY <3>1, <3>2, <3>3
  <2>3. /\ {"build_unattend", "save", "allocate"} \subseteq StepNames
        /\ Rank["build_unattend"] = 1 /\ Rank["save"] = 2 /\ Rank["allocate"] = 3
    BY DEF StepNames, Rank
  <2>4. Between(<<"build_unattend">>, 1, 1) /\ \A y : Has(<<"build_unattend">>, y) <=> y = "build_unattend"
    BY <2>3, BetweenOne
  <2>5. Between(p, 1, 1) /\ \A y : Has(p, y) <=> provision /\ y = "build_unattend"
    BY <2>4, BetweenIf
  <2>6. Between(<<"save">>, 2, 2) /\ \A y : Has(<<"save">>, y) <=> y = "save"
    BY <2>3, BetweenOne
  <2>7. Between(<<"allocate">>, 3, 3) /\ \A y : Has(<<"allocate">>, y) <=> y = "allocate"
    BY <2>3, BetweenOne
  <2>8. Between(a, 3, 3) /\ \A y : Has(a, y) <=> allocate /\ y = "allocate"
    BY <2>7, BetweenIf
  <2> HIDE DEF p, a, c, cfg
  <2>9. Between(ps, 1, 2) /\ \A y : Has(ps, y) <=> (provision /\ y = "build_unattend") \/ y = "save"
    BY <2>5, <2>6, BetweenConcat
  <2> HIDE DEF ps
  <2>10. /\ Between(steps, 1, 3)
         /\ \A y : Has(steps, y) <=> \/ provision /\ y = "build_unattend"
                                     \/ y = "save" \/ (allocate /\ y = "allocate")
    BY <2>8, <2>9, BetweenConcat
  <2> HIDE DEF steps
  <2>11. Between(steps, 1, 8)
    BY <2>10, BetweenWide
  <2> QED
    BY <1>2, <2>1, <2>2, <2>10, <2>11, BeginFleet
<1> QED
  BY <1>1, <1>2

\* The provision step builds the ISO, or refuses a guest that has no use for it.
LEMMA ProvisionSteps ==
    ASSUME NEW cfg
    PROVE  /\ Between(ProvisionStep(cfg), 1, 1)
           /\ \A y : Has(ProvisionStep(cfg), y) <=>
                 y = IF cfg.os = "windows" THEN "build_unattend" ELSE "refuse"
<1>1. /\ "build_unattend" \in StepNames /\ "refuse" \in StepNames
      /\ Rank["build_unattend"] = 1 /\ Rank["refuse"] = 1
  BY DEF StepNames, Rank
<1>2. Between(<<"build_unattend">>, 1, 1) /\ \A y : Has(<<"build_unattend">>, y) <=> y = "build_unattend"
  BY <1>1, BetweenOne
<1>3. Between(<<"refuse">>, 1, 1) /\ \A y : Has(<<"refuse">>, y) <=> y = "refuse"
  BY <1>1, BetweenOne
<1>4. CASE cfg.os = "windows"
  BY <1>2, <1>4 DEF ProvisionStep
<1>5. CASE cfg.os # "windows"
  BY <1>3, <1>5 DEF ProvisionStep
<1> QED
  BY <1>4, <1>5

LEMMA LaunchFleet ==
    ASSUME FleetInv, DiskInv', NEW v \in Vessels, NEW os \in Oses, NEW iso \in IsoArgs,
           NEW provision \in BOOLEAN, NEW allocate \in BOOLEAN, NEW start \in BOOLEAN,
           Launch(v, os, iso, provision, allocate, start)
    PROVE  FleetInv'
<1> DEFINE new == ~vstore[v].saved
           base == IF new THEN Recommended(os, "") ELSE vstore[v]
           cfg == IF iso = "" THEN base ELSE [base EXCEPT !.iso = iso]
           c1 == iso = "distro"
           c2 == cfg.os = "windows" /\ cfg.virtio
           c4 == Allocates(new, allocate)
           m1 == If(c1, <<"fetch_distro">>)
           m2 == If(c2, <<"fetch_virtio">>)
           m3 == If(provision, ProvisionStep(cfg))
           a == If(c4, <<"allocate">>)
           m12 == m1 \o m2
           m123 == m12 \o m3
           ms == m123 \o <<"save">>
           media == ms \o a
           on == If(start, <<"start_anyway">>)
           tail == <<"write_xml", "define">> \o on
           steps == media \o tail
           c == IF provision THEN Provisioned(cfg) ELSE cfg
           p == IF cfg.os = "windows" THEN "build_unattend" ELSE "refuse"
<1>1. CASE iso = "mido"
  <2>1. Begin("launch", v, <<>>, 2, NoVessel)
    BY <1>1 DEF Launch
  <2> QED
    BY <2>1, RefusedFleet
<1>2. CASE iso # "mido"
  <2>1. Begin("launch", v, steps, 0, c)
    BY <1>2 DEF Launch, LaunchSteps
  <2>2. vstore[v] \in VesselType /\ Guest(vstore[v]) /\ (vstore[v].provisioned => unattend[v] # "none")
    BY DEF FleetInv, DiskInv, Types, CfgFits
  <2>3. base \in VesselType /\ base.saved /\ Guest(base) /\ (base.provisioned => unattend[v] # "none")
    <3>1. "" \in IsoArgs
      BY DEF IsoArgs
    <3>2. /\ Recommended(os, "") \in VesselType /\ Recommended(os, "").saved
          /\ Guest(Recommended(os, "")) /\ ~Recommended(os, "").provisioned
      BY <3>1, RecommendedType, RecommendedGuest
    <3> QED
      BY <2>2, <3>2
  <2>4. cfg \in VesselType /\ cfg.saved /\ Guest(cfg) /\ (cfg.provisioned => unattend[v] # "none")
    <3> HIDE DEF base
    <3> QED
      BY <2>3 DEF VesselType, Guest
  <2> HIDE DEF cfg
  <2>5. c.saved
    BY <2>4, ProvisionedType
  <2>6. /\ provision /\ cfg.os # "linux" => Guest(c)
        /\ ~provision => Guest(c) /\ (c.provisioned => unattend[v] # "none")
    BY <2>4, ProvisionedGuest
  <2>7. cfg.os # "linux" <=> cfg.os = "windows"
    BY <2>4 DEF VesselType, Oses
  <2>8. /\ "fetch_distro" \in StepNames /\ "fetch_virtio" \in StepNames /\ "save" \in StepNames
        /\ "allocate" \in StepNames /\ "start_anyway" \in StepNames
        /\ Rank["fetch_distro"] = 1 /\ Rank["fetch_virtio"] = 1 /\ Rank["save"] = 2
        /\ Rank["allocate"] = 3 /\ Rank["start_anyway"] = 6
    BY DEF StepNames, Rank
  <2>9. c1 \in BOOLEAN /\ c2 \in BOOLEAN /\ c4 \in BOOLEAN
    BY DEF Allocates
  <2> HIDE DEF c, p
  <2>10. Between(m1, 1, 1) /\ \A y : Has(m1, y) <=> c1 /\ y = "fetch_distro"
    <3>1. Between(<<"fetch_distro">>, 1, 1) /\ \A y : Has(<<"fetch_distro">>, y) <=> y = "fetch_distro"
      BY <2>8, BetweenOne
    <3> HIDE DEF c1
    <3> QED
      BY <2>9, <3>1, BetweenIf
  <2>11. Between(m2, 1, 1) /\ \A y : Has(m2, y) <=> c2 /\ y = "fetch_virtio"
    <3>1. Between(<<"fetch_virtio">>, 1, 1) /\ \A y : Has(<<"fetch_virtio">>, y) <=> y = "fetch_virtio"
      BY <2>8, BetweenOne
    <3> HIDE DEF c2
    <3> QED
      BY <2>9, <3>1, BetweenIf
  <2>12. Between(m3, 1, 1) /\ \A y : Has(m3, y) <=> provision /\ y = p
    <3>1. /\ Between(ProvisionStep(cfg), 1, 1)
          /\ \A y : Has(ProvisionStep(cfg), y) <=> y = p
      BY ProvisionSteps DEF p
    <3> QED
      BY <3>1, BetweenIf
  <2>13. Between(<<"save">>, 2, 2) /\ \A y : Has(<<"save">>, y) <=> y = "save"
    BY <2>8, BetweenOne
  <2>14. Between(a, 3, 3) /\ \A y : Has(a, y) <=> c4 /\ y = "allocate"
    <3>1. Between(<<"allocate">>, 3, 3) /\ \A y : Has(<<"allocate">>, y) <=> y = "allocate"
      BY <2>8, BetweenOne
    <3> HIDE DEF c4
    <3> QED
      BY <2>9, <3>1, BetweenIf
  <2>15. Between(on, 6, 6) /\ \A y : Has(on, y) <=> start /\ y = "start_anyway"
    <3>1. Between(<<"start_anyway">>, 6, 6) /\ \A y : Has(<<"start_anyway">>, y) <=> y = "start_anyway"
      BY <2>8, BetweenOne
    <3> QED
      BY <3>1, BetweenIf
  <2> HIDE DEF c1, c2, c4, m1, m2, m3, a, on
  <2>16. Between(m12, 1, 1) /\ \A y : Has(m12, y) <=> Has(m1, y) \/ Has(m2, y)
    BY <2>10, <2>11, BetweenConcat
  <2> HIDE DEF m12
  <2>17. Between(m123, 1, 1) /\ \A y : Has(m123, y) <=> Has(m12, y) \/ Has(m3, y)
    BY <2>12, <2>16, BetweenConcat
  <2> HIDE DEF m123
  <2>18. Between(ms, 1, 2) /\ \A y : Has(ms, y) <=> Has(m123, y) \/ y = "save"
    BY <2>13, <2>17, BetweenConcat
  <2> HIDE DEF ms
  <2>19. Between(media, 1, 3) /\ \A y : Has(media, y) <=> Has(ms, y) \/ Has(a, y)
    BY <2>14, <2>18, BetweenConcat
  <2> HIDE DEF media
  <2>20. Between(tail, 4, 6) /\ \A y : Has(tail, y) <=> y = "write_xml" \/ y = "define" \/ Has(on, y)
    BY <2>15, Pairs, BetweenConcat
  <2> HIDE DEF tail
  <2>21. Between(steps, 1, 6) /\ \A y : Has(steps, y) <=> Has(media, y) \/ Has(tail, y)
    BY <2>19, <2>20, BetweenConcat
  <2> HIDE DEF steps
  <2>22. Between(steps, 1, 8)
    BY <2>21, BetweenWide
  <2>23. /\ Has(steps, "save") /\ Has(steps, "write_xml") /\ Has(steps, "define")
         /\ provision => Has(steps, p)
    BY <2>12, <2>16, <2>17, <2>18, <2>19, <2>20, <2>21
  <2>24. p \in {"build_unattend", "refuse"}
    BY DEF p
  <2>25. ~Has(steps, "undefine") /\ ~Has(steps, "delete") /\ ~Has(steps, "save_profile")
    BY <2>10, <2>11, <2>12, <2>14, <2>15, <2>16, <2>17, <2>18, <2>19, <2>20, <2>21, <2>24
  <2>26. \/ Has(steps, "refuse")
         \/ /\ Guest(c)
            /\ c.provisioned => Has(steps, "build_unattend") \/ unattend[v] # "none"
    BY <2>6, <2>7, <2>23 DEF p
  <2> QED
    BY <2>1, <2>5, <2>22, <2>23, <2>25, <2>26, BeginFleet
<1> QED
  BY <1>1, <1>2

-----------------------------------------------------------------------------
(* The vessels and the steps of a command *)

\* A command that is over, by a failure or by a kill, leaves everything as it
\* found it.
LEMMA EndFleet ==
    ASSUME FleetInv, DiskInv', VesselTypes', job'.todo = <<>>,
           job'.cmd \in {"launch", "define"} => job'.rc # 0,
           UNCHANGED <<vstore, unattend, xml, domain>>,
           toolFaults' = 0 => toolFaults = 0 /\ (~InTodo("define") \/ InTodo("refuse"))
    PROVE  FleetInv'
<1>1. \A x : ~InTodo(x)'
  BY BetweenNone DEF InTodo
<1>2. Between(job'.todo, 1, 8)
  BY BetweenNone
<1>3. StepsFit'
  BY <1>1, <1>2 DEF StepsFit
<1>4. CfgFits'
  BY <1>1 DEF FleetInv, CfgFits, Guest
<1>5. Launching'
  BY <1>1 DEF Launching
<1>6. DomainsFit'
  BY <1>1 DEF FleetInv, DomainsFit, Matches
<1> QED
  BY <1>3, <1>4, <1>5, <1>6 DEF FleetInv

\* What is left of the list when a step is done.
LEMMA RestFits ==
    ASSUME FleetInv, NEW h, On(h), Moves
    PROVE  /\ StepsFit' /\ h \in StepNames /\ InTodo(h)
           /\ job'.cmd = job.cmd /\ job'.on = job.on /\ job'.rc = job.rc /\ job'.cfg = job.cfg
           /\ \A x : InTodo(x) <=> x = h \/ InTodo(x)'
           /\ \A x \in StepNames : InTodo(x) => Rank[h] <= Rank[x]
<1>1. job \in JobType /\ Between(job.todo, 1, 8)
  BY DEF FleetInv, DiskInv, Types, StepsFit
<1>2. /\ h \in StepNames /\ InTodo(h)
      /\ \A x \in StepNames : InTodo(x) => Rank[h] <= Rank[x]
      /\ job'.cmd = job.cmd /\ job'.on = job.on /\ job'.rc = job.rc /\ job'.cfg = job.cfg
      /\ Between(job'.todo, 1, 8)
      /\ \A x : InTodo(x) <=> x = h \/ Has(job'.todo, x)
  BY <1>1, MovesFacts
<1>3. \A x : InTodo(x) <=> x = h \/ InTodo(x)'
  BY <1>2 DEF InTodo
<1>4. InTodo("save")' => h # "define"
  <2>1. "save" \in StepNames /\ ~(Rank["define"] <= Rank["save"])
    BY DEF StepNames, Rank
  <2> QED
    BY <1>2, <1>3, <2>1
<1>5. StepsFit'
  BY <1>2, <1>3, <1>4 DEF FleetInv, StepsFit
<1> QED
  BY <1>2, <1>3, <1>5

\* A step that leaves vessels and domains alone.
LEMMA MoveFleet ==
    ASSUME FleetInv, DiskInv', VesselTypes', NEW h, On(h), Moves,
           h \notin {"build_unattend", "refuse", "save", "write_xml", "define", "undefine",
                     "delete", "save_profile"},
           UNCHANGED <<vstore, unattend, xml, domain>>, toolFaults' = 0 => toolFaults = 0
    PROVE  FleetInv'
<1>1. /\ StepsFit'
      /\ job'.cmd = job.cmd /\ job'.on = job.on /\ job'.rc = job.rc /\ job'.cfg = job.cfg
      /\ \A x : InTodo(x) <=> x = h \/ InTodo(x)'
  BY RestFits
<1>2. \A x \in {"build_unattend", "refuse", "save", "write_xml", "define", "undefine", "delete",
                "save_profile"} : InTodo(x) <=> InTodo(x)'
  BY <1>1
<1>3. CfgFits'
  BY <1>1, <1>2 DEF FleetInv, CfgFits, Guest, Alike
<1>4. Launching'
  BY <1>1, <1>2 DEF FleetInv, Launching
<1>5. DomainsFit'
  BY <1>1, <1>2 DEF FleetInv, DomainsFit, Matches
<1> QED
  BY <1>1, <1>3, <1>4, <1>5 DEF FleetInv

\* The order of the steps, as far as the argument needs it.
LEMMA Ranks ==
    /\ ~(Rank["save"] <= Rank["refuse"]) /\ ~(Rank["save"] <= Rank["build_unattend"])
    /\ ~(Rank["define"] <= Rank["write_xml"]) /\ ~(Rank["define"] <= Rank["save"])
    /\ ~(Rank["define"] <= Rank["refuse"]) /\ ~(Rank["write_xml"] <= Rank["save"])
    /\ ~(Rank["delete"] <= Rank["undefine"])
    /\ \A x \in {"start", "start_anyway", "stop", "address", "allocate", "undefine", "delete", "save_profile"} :
          ~(Rank[x] <= Rank["save"])
    /\ \A x \in {"start", "start_anyway", "stop", "address", "undefine", "delete", "save_profile"} :
          ~(Rank[x] <= Rank["define"])
    /\ {"save", "refuse", "build_unattend", "define", "write_xml", "delete", "undefine",
        "save_profile"} \subseteq StepNames \ Fetching
BY DEF Rank, StepNames, Fetching, StepImage

LEMMA UnattendFleet ==
    ASSUME FleetInv, DiskInv', On("build_unattend"), Moves, ToolOk,
           unattend' = [unattend EXCEPT ![job.on] = "whole"],
           UNCHANGED <<vstore, xml, domain, running, cache, rdpProfiles>>
    PROVE  FleetInv'
<1> DEFINE h == "build_unattend"
<1>1. /\ StepsFit' /\ InTodo(h)
      /\ job'.cmd = job.cmd /\ job'.on = job.on /\ job'.rc = job.rc /\ job'.cfg = job.cfg
      /\ \A x : InTodo(x) <=> x = h \/ InTodo(x)'
  BY RestFits
<1>2. \A x \in {"refuse", "save", "write_xml", "define", "undefine", "delete", "save_profile"} :
         InTodo(x) <=> InTodo(x)'
  BY <1>1
<1>3. job.on \in Vessels
  BY <1>1, Ranks DEF FleetInv, StepsFit
<1>4. unattend \in [Vessels -> {"none", "whole", "left"}]
  BY DEF FleetInv, VesselTypes
<1>5. VesselTypes'
  BY <1>3, <1>4 DEF FleetInv, VesselTypes, ToolOk
<1>6. unattend'[job.on] = "whole" /\ \A v \in Vessels : unattend[v] # "none" => unattend'[v] # "none"
  BY <1>3, <1>4
<1>7. CfgFits'
  BY <1>1, <1>2, <1>6 DEF FleetInv, CfgFits, Guest, Alike
<1>8. Launching'
  BY <1>1, <1>2 DEF FleetInv, Launching
<1>9. DomainsFit'
  BY <1>1, <1>2 DEF FleetInv, DomainsFit, Matches, ToolOk
<1> QED
  BY <1>1, <1>5, <1>7, <1>8, <1>9 DEF FleetInv

LEMMA SaveFleet == FleetInv /\ DiskInv' /\ SaveVessel => FleetInv'
<1> SUFFICES ASSUME FleetInv, DiskInv', SaveVessel PROVE FleetInv'
  OBVIOUS
<1> DEFINE h == "save"
<1>0. /\ On(h) /\ Moves /\ vstore' = [vstore EXCEPT ![job.on] = job.cfg]
      /\ UNCHANGED <<unattend, xml, domain, running, cache, rdpProfiles, toolFaults>>
  BY DEF SaveVessel
<1>1. /\ StepsFit' /\ InTodo(h)
      /\ job'.cmd = job.cmd /\ job'.on = job.on /\ job'.rc = job.rc /\ job'.cfg = job.cfg
      /\ \A x : InTodo(x) <=> x = h \/ InTodo(x)'
      /\ \A x \in StepNames : InTodo(x) => Rank[h] <= Rank[x]
  BY <1>0, RestFits
<1>2. \A x \in {"refuse", "build_unattend", "write_xml", "define", "undefine", "delete", "save_profile"} :
         InTodo(x) <=> InTodo(x)'
  BY <1>1
<1>3. job.on \in Vessels /\ job.cmd \in {"create", "launch"} /\ ~InTodo("save_profile")
      /\ (job.cmd = "launch" => InTodo("define"))
  BY <1>1, Ranks DEF FleetInv, StepsFit
<1>4. ~InTodo("refuse") /\ ~InTodo("build_unattend")
  BY <1>1, Ranks
<1>5. vstore \in [Vessels -> VesselType] /\ job.cfg \in VesselType
  BY DEF FleetInv, DiskInv, Types, JobType
<1>6. /\ vstore'[job.on] = job.cfg
      /\ \A v \in Vessels : v # job.on => vstore'[v] = vstore[v]
  BY <1>0, <1>3, <1>5
<1>7. VesselTypes'
  BY <1>0 DEF FleetInv, VesselTypes
<1>8. CfgFits'
  BY <1>0, <1>1, <1>2, <1>3, <1>4, <1>6 DEF FleetInv, CfgFits, Guest
<1>9. Launching'
  BY <1>0, <1>1, <1>2, <1>6 DEF FleetInv, Launching
<1>10. DomainsFit'
  <2> SUFFICES ASSUME toolFaults' = 0
               PROVE  /\ \A v \in Vessels : \/ Matches(v)'
                                            \/ v = job'.on /\ InTodo("define")' /\ ~InTodo("refuse")'
                      /\ job'.cmd = "create" /\ InTodo("save")' => domain'[job'.on] = NoDomain
                      /\ InTodo("delete")' => InTodo("undefine")' \/ domain'[job'.on] = NoDomain
    BY DEF DomainsFit
  <2>1. toolFaults = 0 /\ domain' = domain
    BY <1>0
  <2>2. /\ job.cmd = "create" => domain[job.on] = NoDomain
        /\ InTodo("delete") => InTodo("undefine") \/ domain[job.on] = NoDomain
    BY <1>1, <2>1 DEF FleetInv, DomainsFit
  <2>3. ASSUME NEW v \in Vessels, v # job.on PROVE Matches(v)'
    BY <1>6, <2>1, <2>3 DEF FleetInv, DomainsFit, Matches
  <2>4. Matches(job.on)' \/ InTodo("define")
    BY <1>1, <1>3, <2>1, <2>2 DEF Matches
  <2> QED
    BY <1>1, <1>2, <1>3, <1>4, <2>1, <2>2, <2>3, <2>4 DEF Matches
<1> QED
  BY <1>1, <1>7, <1>8, <1>9, <1>10 DEF FleetInv

LEMMA CompileType ==
    ASSUME NEW c \in VesselType
    PROVE  CompileDomain(c) \in Domains
BY DEF CompileDomain, VesselType, Domains

LEMMA NoDomainType == NoDomain \in Domains
BY DEF NoDomain, Domains, Oses, IsoArgs

LEMMA XmlFleet == FleetInv /\ DiskInv' /\ WriteDomainXml => FleetInv'
<1> SUFFICES ASSUME FleetInv, DiskInv', WriteDomainXml PROVE FleetInv'
  OBVIOUS
<1> DEFINE h == "write_xml"
<1>0. /\ On(h) /\ Moves /\ xml' = [xml EXCEPT ![job.on] = CompileDomain(job.cfg)]
      /\ UNCHANGED <<vstore, unattend, domain, running, cache, rdpProfiles, toolFaults>>
  BY DEF WriteDomainXml
<1>1. /\ StepsFit' /\ InTodo(h)
      /\ job'.cmd = job.cmd /\ job'.on = job.on /\ job'.rc = job.rc /\ job'.cfg = job.cfg
      /\ \A x : InTodo(x) <=> x = h \/ InTodo(x)'
  BY <1>0, RestFits
<1>2. \A x \in {"refuse", "build_unattend", "save", "define", "undefine", "delete", "save_profile"} :
         InTodo(x) <=> InTodo(x)'
  BY <1>1
<1>3. job.on \in Vessels
  BY <1>1, Ranks DEF FleetInv, StepsFit
<1>4. CompileDomain(job.cfg) \in Domains /\ xml \in [Vessels -> Domains]
  BY CompileType DEF FleetInv, DiskInv, Types, JobType, VesselTypes
<1>5. xml'[job.on] = CompileDomain(job.cfg) /\ xml' \in [Vessels -> Domains]
  BY <1>0, <1>3, <1>4
<1>6. VesselTypes'
  BY <1>0, <1>5 DEF FleetInv, VesselTypes
<1>7. CfgFits'
  BY <1>0, <1>1, <1>2 DEF FleetInv, CfgFits, Guest, Alike
<1>8. Launching'
  BY <1>0, <1>1, <1>2, <1>5 DEF FleetInv, Launching, CompileDomain
<1>9. DomainsFit'
  BY <1>0, <1>1, <1>2 DEF FleetInv, DomainsFit, Matches
<1> QED
  BY <1>1, <1>6, <1>7, <1>8, <1>9 DEF FleetInv

LEMMA DefineFleet ==
    ASSUME FleetInv, DiskInv', On("define"), Moves, ToolOk,
           domain' = [domain EXCEPT ![job.on] = xml[job.on]],
           UNCHANGED <<vstore, unattend, xml, running, cache, rdpProfiles>>
    PROVE  FleetInv'
<1> DEFINE h == "define"
<1>1. /\ StepsFit' /\ InTodo(h)
      /\ job'.cmd = job.cmd /\ job'.on = job.on /\ job'.rc = job.rc /\ job'.cfg = job.cfg
      /\ \A x : InTodo(x) <=> x = h \/ InTodo(x)'
      /\ \A x \in StepNames : InTodo(x) => Rank[h] <= Rank[x]
  BY RestFits
<1>2. \A x \in {"refuse", "build_unattend", "save", "write_xml", "undefine", "delete", "save_profile"} :
         InTodo(x) <=> InTodo(x)'
  BY <1>1
<1>3. /\ job.on \in Vessels /\ job.cmd \in {"launch", "define"} /\ job.rc = 0
      /\ ~InTodo("undefine") /\ ~InTodo("delete")
  BY <1>1, Ranks DEF FleetInv, StepsFit
<1>4. ~InTodo("save") /\ ~InTodo("write_xml") /\ ~InTodo("refuse")
  BY <1>1, Ranks
<1>5. /\ job.cfg.saved /\ vstore[job.on] = job.cfg /\ xml[job.on] = CompileDomain(job.cfg)
  BY <1>3, <1>4 DEF FleetInv, Launching
<1>6. xml \in [Vessels -> Domains] /\ domain \in [Vessels -> Domains]
  BY DEF FleetInv, VesselTypes
<1>7. /\ domain'[job.on] = CompileDomain(job.cfg) /\ domain' \in [Vessels -> Domains]
      /\ \A v \in Vessels : v # job.on => domain'[v] = domain[v]
  BY <1>3, <1>5, <1>6
<1>8. VesselTypes'
  BY <1>7 DEF FleetInv, VesselTypes, ToolOk
<1>9. CfgFits'
  BY <1>1, <1>2 DEF FleetInv, CfgFits, Guest, Alike
<1>10. Launching'
  BY <1>1, <1>2, <1>3, <1>5, <1>7 DEF FleetInv, Launching, CompileDomain
<1>11. DomainsFit'
  <2>1. ASSUME NEW v \in Vessels, toolFaults' = 0 PROVE Matches(v)'
    <3>1. CASE v = job.on
      BY <1>5, <1>7, <3>1 DEF Matches
    <3>2. CASE v # job.on
      BY <1>7, <2>1, <3>2 DEF FleetInv, DomainsFit, Matches, ToolOk
    <3> QED
      BY <3>1, <3>2
  <2> QED
    BY <1>1, <1>2, <1>3, <1>4, <2>1 DEF DomainsFit
<1> QED
  BY <1>1, <1>8, <1>9, <1>10, <1>11 DEF FleetInv

LEMMA UndefineFleet == FleetInv /\ DiskInv' /\ Undefine => FleetInv'
<1> SUFFICES ASSUME FleetInv, DiskInv', Undefine PROVE FleetInv'
  OBVIOUS
<1> DEFINE h == "undefine"
<1>0. /\ On(h) /\ Moves
      /\ \/ domain' = [domain EXCEPT ![job.on] = NoDomain] /\ toolFaults' = toolFaults
         \/ domain' = domain /\ toolFaults' = toolFaults + 1
      /\ UNCHANGED <<vstore, unattend, xml, running, cache, rdpProfiles>>
  BY DEF Undefine, ToolOk, ToolFault
<1>1. /\ StepsFit' /\ InTodo(h)
      /\ job'.cmd = job.cmd /\ job'.on = job.on /\ job'.rc = job.rc /\ job'.cfg = job.cfg
      /\ \A x : InTodo(x) <=> x = h \/ InTodo(x)'
  BY <1>0, RestFits
<1>2. \A x \in {"refuse", "build_unattend", "save", "write_xml", "define", "delete", "save_profile"} :
         InTodo(x) <=> InTodo(x)'
  BY <1>1
<1>3. job.on \in Vessels /\ job.cmd = "rm"
  BY <1>1, Ranks DEF FleetInv, StepsFit
<1>4. domain \in [Vessels -> Domains] /\ toolFaults \in Nat
  BY DEF FleetInv, VesselTypes
<1>5. domain' \in [Vessels -> Domains] /\ toolFaults' \in Nat
  BY <1>0, <1>3, <1>4, NoDomainType
<1>6. VesselTypes'
  BY <1>0, <1>5 DEF FleetInv, VesselTypes
<1>7. CfgFits'
  BY <1>0, <1>1, <1>2 DEF FleetInv, CfgFits, Guest, Alike
<1>8. Launching'
  BY <1>1, <1>3 DEF Launching
<1>9. DomainsFit'
  <2> SUFFICES ASSUME toolFaults' = 0 PROVE DomainsFit'
    BY DEF DomainsFit
  <2>1. toolFaults = 0 /\ domain' = [domain EXCEPT ![job.on] = NoDomain]
    BY <1>0, <1>4
  <2>2. domain'[job.on] = NoDomain /\ \A v \in Vessels : v # job.on => domain'[v] = domain[v]
    BY <1>3, <1>4, <2>1
  <2>3. ASSUME NEW v \in Vessels PROVE Matches(v)'
    BY <1>0, <2>1, <2>2 DEF FleetInv, DomainsFit, Matches
  <2> QED
    BY <1>1, <1>3, <2>2, <2>3 DEF DomainsFit
<1> QED
  BY <1>1, <1>6, <1>7, <1>8, <1>9 DEF FleetInv

LEMMA NoVesselGuest == Guest(NoVessel) /\ ~NoVessel.provisioned /\ ~NoVessel.saved
BY DEF Guest, NoVessel

LEMMA DeleteFleet == FleetInv /\ DiskInv' /\ DeleteVessel => FleetInv'
<1> SUFFICES ASSUME FleetInv, DiskInv', DeleteVessel PROVE FleetInv'
  OBVIOUS
<1> DEFINE h == "delete"
<1>0. /\ On(h) /\ Moves /\ vstore' = [vstore EXCEPT ![job.on] = NoVessel]
      /\ unattend' = [unattend EXCEPT ![job.on] = "none"] /\ xml' = [xml EXCEPT ![job.on] = NoDomain]
      /\ UNCHANGED <<domain, running, cache, rdpProfiles, toolFaults>>
  BY DEF DeleteVessel
<1>1. /\ StepsFit' /\ InTodo(h)
      /\ job'.cmd = job.cmd /\ job'.on = job.on /\ job'.rc = job.rc /\ job'.cfg = job.cfg
      /\ \A x : InTodo(x) <=> x = h \/ InTodo(x)'
      /\ \A x \in StepNames : InTodo(x) => Rank[h] <= Rank[x]
  BY <1>0, RestFits
<1>2. job.on \in Vessels /\ job.cmd = "rm" /\ ~InTodo("save") /\ ~InTodo("save_profile") /\ ~InTodo("define")
  BY <1>1, Ranks DEF FleetInv, StepsFit
<1>3. ~InTodo("undefine")
  BY <1>1, Ranks
<1>4. /\ vstore \in [Vessels -> VesselType] /\ unattend \in [Vessels -> {"none", "whole", "left"}]
      /\ xml \in [Vessels -> Domains]
  BY DEF FleetInv, DiskInv, Types, VesselTypes
<1>5. /\ vstore'[job.on] = NoVessel
      /\ \A v \in Vessels : v # job.on => vstore'[v] = vstore[v] /\ unattend'[v] = unattend[v]
      /\ unattend' \in [Vessels -> {"none", "whole", "left"}]
      /\ xml' \in [Vessels -> Domains]
  BY <1>0, <1>2, <1>4, NoDomainType
<1>6. VesselTypes'
  BY <1>0, <1>5 DEF FleetInv, VesselTypes
<1>7. CfgFits'
  <2>1. ASSUME NEW v \in Vessels
        PROVE  Guest(vstore'[v]) /\ (vstore'[v].provisioned => unattend'[v] # "none")
    <3>1. CASE v = job.on
      BY <1>5, <3>1, NoVesselGuest
    <3>2. CASE v # job.on
      BY <1>5, <3>2 DEF FleetInv, CfgFits
    <3> QED
      BY <3>1, <3>2
  <2> QED
    BY <1>1, <1>2, <2>1 DEF CfgFits, Guest
<1>8. Launching'
  BY <1>1, <1>2 DEF Launching
<1>9. DomainsFit'
  <2> SUFFICES ASSUME toolFaults' = 0 PROVE DomainsFit'
    BY DEF DomainsFit
  <2>1. toolFaults = 0 /\ domain' = domain /\ domain[job.on] = NoDomain
    BY <1>0, <1>1, <1>3 DEF FleetInv, DomainsFit
  <2>2. ASSUME NEW v \in Vessels PROVE Matches(v)'
    BY <1>2, <1>5, <2>1 DEF FleetInv, DomainsFit, Matches
  <2> QED
    BY <1>1, <1>2, <2>1, <2>2 DEF DomainsFit
<1> QED
  BY <1>1, <1>6, <1>7, <1>8, <1>9 DEF FleetInv

LEMMA DeleteCutFleet == FleetInv /\ DiskInv' /\ DeleteCut => FleetInv'
<1> SUFFICES ASSUME FleetInv, DiskInv', DeleteCut PROVE FleetInv'
  OBVIOUS
<1>0. PICK config \in BOOLEAN :
         /\ On("delete") /\ toolFaults' = toolFaults + 1 /\ job' = NoJob
         /\ vstore' = [vstore EXCEPT ![job.on] = IF config THEN NoVessel ELSE @]
         /\ unattend' = [unattend EXCEPT ![job.on] = "left"]
         /\ UNCHANGED <<xml, domain, running, cache, rdpProfiles>>
  BY DEF DeleteCut, ToolFault
<1>1. job \in JobType /\ Between(job.todo, 1, 8)
  BY DEF FleetInv, DiskInv, Types, StepsFit
<1>2. InTodo("delete")
  BY <1>0, <1>1, MovesFacts
<1>3. job.on \in Vessels
  BY <1>2, Ranks DEF FleetInv, StepsFit
<1>4. /\ vstore \in [Vessels -> VesselType] /\ unattend \in [Vessels -> {"none", "whole", "left"}]
      /\ toolFaults \in Nat
  BY DEF FleetInv, DiskInv, Types, VesselTypes
<1>5. /\ vstore'[job.on] \in {NoVessel, vstore[job.on]}
      /\ \A v \in Vessels : v # job.on => vstore'[v] = vstore[v] /\ unattend'[v] = unattend[v]
      /\ unattend'[job.on] = "left" /\ unattend' \in [Vessels -> {"none", "whole", "left"}]
      /\ toolFaults' \in Nat /\ toolFaults' # 0
  BY <1>0, <1>3, <1>4
<1>6. VesselTypes'
  BY <1>0, <1>5 DEF FleetInv, VesselTypes
<1>7. /\ job'.todo = <<>> /\ job'.cmd = "none" /\ Between(job'.todo, 1, 8)
      /\ \A x : ~InTodo(x)'
  BY <1>0, BetweenNone DEF NoJob, InTodo
<1>8. StepsFit'
  BY <1>7 DEF StepsFit
<1>9. CfgFits'
  <2>1. ASSUME NEW v \in Vessels
        PROVE  Guest(vstore'[v]) /\ (vstore'[v].provisioned => unattend'[v] # "none")
    <3>0. Guest(vstore[v]) /\ (vstore[v].provisioned => unattend[v] # "none")
      BY DEF FleetInv, CfgFits
    <3>1. CASE v = job.on
      BY <1>5, <3>0, <3>1, NoVesselGuest
    <3>2. CASE v # job.on
      BY <1>5, <3>0, <3>2
    <3> QED
      BY <3>1, <3>2
  <2> QED
    BY <1>7, <2>1 DEF CfgFits, Guest
<1>10. Launching' /\ DomainsFit'
  BY <1>5, <1>7 DEF Launching, DomainsFit
<1> QED
  BY <1>6, <1>8, <1>9, <1>10 DEF FleetInv

LEMMA ProfileFleet == FleetInv /\ DiskInv' /\ SaveRdpProfile => FleetInv'
<1> SUFFICES ASSUME FleetInv, DiskInv', SaveRdpProfile PROVE FleetInv'
  OBVIOUS
<1> DEFINE h == "save_profile"
           c == [job.cfg EXCEPT !.profile = TRUE]
<1>0. /\ On(h) /\ Moves /\ vstore' = [vstore EXCEPT ![job.on] = c]
      /\ rdpProfiles' = rdpProfiles \cup {job.on}
      /\ UNCHANGED <<unattend, xml, domain, running, cache, toolFaults>>
  BY DEF SaveRdpProfile
<1>1. /\ StepsFit' /\ InTodo(h)
      /\ job'.cmd = job.cmd /\ job'.on = job.on /\ job'.rc = job.rc /\ job'.cfg = job.cfg
      /\ \A x : InTodo(x) <=> x = h \/ InTodo(x)'
      /\ \A x \in StepNames : InTodo(x) => Rank[h] <= Rank[x]
  BY <1>0, RestFits
<1>2. \A x \in {"refuse", "build_unattend", "save", "write_xml", "define", "undefine", "delete"} :
         InTodo(x) <=> InTodo(x)'
  BY <1>1
<1>3. job.on \in Vessels /\ job.cmd = "connect" /\ ~InTodo("save") /\ ~InTodo("delete") /\ ~InTodo("define")
  BY <1>1, Ranks DEF FleetInv, StepsFit
<1>4. vstore \in [Vessels -> VesselType] /\ job.cfg \in VesselType
  BY DEF FleetInv, DiskInv, Types, JobType
<1>5. Alike(c, job.cfg) /\ Alike(vstore[job.on], job.cfg)
  BY <1>1, <1>4 DEF FleetInv, CfgFits, Alike, VesselType
<1> HIDE DEF c
<1>6. vstore'[job.on] = c /\ \A v \in Vessels : v # job.on => vstore'[v] = vstore[v]
  BY <1>0, <1>3, <1>4
<1>7. VesselTypes'
  BY <1>0, <1>3 DEF FleetInv, VesselTypes
<1>8. CfgFits'
  <2>1. ASSUME NEW v \in Vessels
        PROVE  Guest(vstore'[v]) /\ (vstore'[v].provisioned => unattend'[v] # "none")
    <3>0. Guest(vstore[v]) /\ (vstore[v].provisioned => unattend[v] # "none")
      BY DEF FleetInv, CfgFits
    <3>1. CASE v = job.on
      BY <1>0, <1>5, <1>6, <3>0, <3>1 DEF Alike, Guest
    <3>2. CASE v # job.on
      BY <1>0, <1>6, <3>0, <3>2
    <3> QED
      BY <3>1, <3>2
  <2>2. Alike(vstore'[job.on], job.cfg)
    BY <1>5, <1>6
  <2> QED
    BY <1>1, <1>2, <1>3, <2>1, <2>2 DEF CfgFits, Guest, Alike
<1>9. Launching'
  BY <1>1, <1>3 DEF Launching
<1>10. DomainsFit'
  <2> SUFFICES ASSUME toolFaults' = 0 PROVE DomainsFit'
    BY DEF DomainsFit
  <2>1. toolFaults = 0 /\ domain' = domain
    BY <1>0
  <2>2. ASSUME NEW v \in Vessels PROVE Matches(v)'
    <3>0. Matches(v)
      BY <1>3, <2>1 DEF FleetInv, DomainsFit
    <3>1. CASE v = job.on
      BY <1>5, <1>6, <2>1, <3>0, <3>1 DEF Alike, Matches, CompileDomain
    <3>2. CASE v # job.on
      BY <1>6, <2>1, <3>0, <3>2 DEF Matches
    <3> QED
      BY <3>1, <3>2
  <2> QED
    BY <1>1, <1>2, <1>3, <2>1, <2>2 DEF DomainsFit
<1> QED
  BY <1>1, <1>7, <1>8, <1>9, <1>10 DEF FleetInv

LEMMA EndsFacts ==
    ASSUME FleetInv, Ends
    PROVE  job'.todo = <<>> /\ job'.rc = 1 /\ job'.rc # 0
BY DEF FleetInv, DiskInv, Types, JobType, Ends

\* What is on the list when a step is at its head.
LEMMA HeadFacts ==
    ASSUME FleetInv, NEW h, On(h)
    PROVE  /\ InTodo(h) /\ h \in StepNames
           /\ \A x \in StepNames : InTodo(x) => Rank[h] <= Rank[x]
           /\ h \notin Fetching => job.on \in Vessels
<1>1. job \in JobType /\ Between(job.todo, 1, 8)
  BY DEF FleetInv, DiskInv, Types, StepsFit
<1>2. /\ InTodo(h) /\ h \in StepNames
      /\ \A x \in StepNames : InTodo(x) => Rank[h] <= Rank[x]
  BY <1>1, MovesFacts
<1> QED
  BY <1>2 DEF FleetInv, StepsFit

\* The ways a step fails, and the steps that leave vessels and domains alone.
LEMMA QuietFleet ==
    ASSUME FleetInv, DiskInv',
           \/ FetchImage \/ Refuse \/ BuildUnattend \/ Allocate \/ DefineDomain
           \/ StartDomain \/ StopDomain \/ Address \/ KillJob
    PROVE  FleetInv'
<1>0. /\ VesselTypes /\ toolFaults \in Nat /\ cache \in [Images -> {"none", "cut", "whole"}]
      /\ running \subseteq Vessels
  BY DEF FleetInv, VesselTypes
<1>1. ToolFault => toolFaults' \in Nat /\ toolFaults' # 0
  BY <1>0 DEF ToolFault
<1>2. ASSUME NEW step \in Fetching
      PROVE  /\ [cache EXCEPT ![StepImage[step]] = "whole"] \in [Images -> {"none", "cut", "whole"}]
             /\ CutOff(step) \subseteq [Images -> {"none", "cut", "whole"}]
  <2>1. StepImage[step] \in Images
    BY DEF Fetching, StepImage, Images
  <2> QED
    BY <1>0, <2>1 DEF CutOff
<1>3. CASE FetchImage
  <2>1. PICK step \in Fetching :
           /\ On(step)
           /\ \/ Cached(step) /\ Moves /\ ToolOk /\ UNCHANGED cache
              \/ ~Cached(step) /\ cache' = [cache EXCEPT ![StepImage[step]] = "whole"] /\ Moves /\ ToolOk
              \/ ~Cached(step) /\ ToolFault /\ Ends /\ cache' \in CutOff(step)
    BY <1>3 DEF FetchImage
  <2>2. UNCHANGED <<vstore, unattend, xml, domain, running, rdpProfiles>>
    BY <1>3 DEF FetchImage
  <2>3. cache' \in [Images -> {"none", "cut", "whole"}] /\ toolFaults' \in Nat
    BY <1>0, <1>1, <1>2, <2>1 DEF ToolOk
  <2>4. VesselTypes'
    BY <1>0, <2>2, <2>3 DEF VesselTypes
  <2>5. step \notin {"build_unattend", "refuse", "save", "write_xml", "define", "undefine",
                     "delete", "save_profile"}
    BY DEF Fetching, StepImage
  <2>6. CASE Moves /\ ToolOk
    BY <2>1, <2>2, <2>4, <2>5, <2>6, MoveFleet DEF ToolOk
  <2>7. CASE ToolFault /\ Ends
    BY <1>1, <2>2, <2>4, <2>7, EndsFacts, EndFleet
  <2> QED
    BY <2>1, <2>6, <2>7
<1>4. CASE Refuse
  <2>1. /\ On("refuse") /\ Ends
        /\ UNCHANGED <<vstore, unattend, xml, domain, running, cache, rdpProfiles, toolFaults>>
    BY <1>4 DEF Refuse
  <2>2. VesselTypes'
    BY <1>0, <2>1 DEF VesselTypes
  <2>3. InTodo("refuse")
    BY <2>1, HeadFacts
  <2> QED
    BY <2>1, <2>2, <2>3, EndsFacts, EndFleet
<1>5. CASE BuildUnattend
  <2>1. CASE unattend' = [unattend EXCEPT ![job.on] = "whole"] /\ Moves /\ ToolOk
    BY <1>5, <2>1, UnattendFleet DEF BuildUnattend
  <2>2. CASE ToolFault /\ BuildFails /\ UNCHANGED unattend
    <3>1. UNCHANGED <<vstore, unattend, xml, domain, running, cache, rdpProfiles>>
      BY <1>5, <2>2 DEF BuildUnattend
    <3>2. VesselTypes'
      BY <1>0, <1>1, <2>2, <3>1 DEF VesselTypes
    <3> QED
      BY <1>1, <2>2, <3>1, <3>2, EndsFacts, EndFleet DEF BuildFails
  <2> QED
    BY <1>5, <2>1, <2>2 DEF BuildUnattend
<1>6. CASE Allocate
  <2>1. /\ On("allocate") /\ Moves /\ (ToolOk \/ ToolFault)
        /\ UNCHANGED <<vstore, unattend, xml, domain, running, cache, rdpProfiles>>
    BY <1>6 DEF Allocate
  <2>2. toolFaults' \in Nat /\ (toolFaults' = 0 => toolFaults = 0)
    BY <1>0, <1>1, <2>1 DEF ToolOk
  <2>3. VesselTypes'
    BY <1>0, <2>1, <2>2 DEF VesselTypes
  <2> QED
    BY <2>1, <2>2, <2>3, MoveFleet
<1>7. CASE DefineDomain
  <2>1. CASE domain' = [domain EXCEPT ![job.on] = xml[job.on]] /\ Moves /\ ToolOk
    BY <1>7, <2>1, DefineFleet DEF DefineDomain
  <2>2. CASE ToolFault /\ Ends /\ UNCHANGED domain
    <3>1. UNCHANGED <<vstore, unattend, xml, domain, running, cache, rdpProfiles>>
      BY <1>7, <2>2 DEF DefineDomain
    <3>2. VesselTypes'
      BY <1>0, <1>1, <2>2, <3>1 DEF VesselTypes
    <3> QED
      BY <1>1, <2>2, <3>1, <3>2, EndsFacts, EndFleet
  <2> QED
    BY <1>7, <2>1, <2>2 DEF DefineDomain
<1>8. CASE StartDomain
  <2>1. PICK h \in {"start", "start_anyway"} : On(h)
    BY <1>8 DEF StartDomain
  <2>2. /\ UNCHANGED <<vstore, unattend, xml, domain, cache, rdpProfiles>>
        /\ running' = running \/ running' = running \cup {job.on}
        /\ ToolOk \/ ToolFault
        /\ Moves \/ Ends
    BY <1>8 DEF StartDomain, ToolOk
  <2>3. toolFaults' \in Nat /\ (toolFaults' = 0 => toolFaults = 0)
    BY <1>0, <1>1, <2>2 DEF ToolOk
  <2>4. h \notin Fetching
    BY DEF Fetching, StepImage
  <2>5. job.on \in Vessels /\ ~InTodo("define")
    BY <2>1, <2>4, HeadFacts, Ranks
  <2>6. VesselTypes'
    BY <1>0, <2>2, <2>3, <2>5 DEF VesselTypes
  <2>7. CASE Moves
    BY <2>1, <2>2, <2>3, <2>6, <2>7, MoveFleet
  <2>8. CASE Ends
    BY <2>2, <2>3, <2>5, <2>6, <2>8, EndsFacts, EndFleet
  <2> QED
    BY <2>2, <2>7, <2>8
<1>9. CASE StopDomain
  <2>1. /\ On("stop") /\ UNCHANGED <<vstore, unattend, xml, domain, cache, rdpProfiles, toolFaults>>
        /\ running' = running \/ running' = running \ {job.on}
        /\ Moves \/ Ends
    BY <1>9 DEF StopDomain
  <2>2. ~InTodo("define")
    BY <2>1, HeadFacts, Ranks
  <2>3. VesselTypes'
    BY <1>0, <2>1 DEF VesselTypes
  <2>4. CASE Moves
    BY <2>1, <2>3, <2>4, MoveFleet
  <2>5. CASE Ends
    BY <2>1, <2>2, <2>3, <2>5, EndsFacts, EndFleet
  <2> QED
    BY <2>1, <2>4, <2>5
<1>10. CASE Address
  <2>1. /\ On("address")
        /\ UNCHANGED <<vstore, unattend, xml, domain, running, cache, rdpProfiles, toolFaults>>
        /\ Moves \/ Ends
    BY <1>10 DEF Address
  <2>2. ~InTodo("define")
    BY <2>1, HeadFacts, Ranks
  <2>3. VesselTypes'
    BY <1>0, <2>1 DEF VesselTypes
  <2>4. CASE Moves
    BY <2>1, <2>3, <2>4, MoveFleet
  <2>5. CASE Ends
    BY <2>1, <2>2, <2>3, <2>5, EndsFacts, EndFleet
  <2> QED
    BY <2>1, <2>4, <2>5
<1>11. CASE KillJob
  <2>1. /\ ToolFault /\ job' = NoJob
        /\ UNCHANGED <<vstore, unattend, xml, domain, running, rdpProfiles>>
    BY <1>11 DEF KillJob
  <2>2. cache' \in [Images -> {"none", "cut", "whole"}]
    <3>1. CASE \E step \in Fetching : On(step) /\ ~Cached(step)
      <4>1. PICK step \in Fetching : On(step)
        BY <3>1
      <4>2. cache' \in CutOff(Head(job.todo)) /\ Head(job.todo) = step
        BY <1>11, <3>1, <4>1 DEF KillJob, On
      <4> QED
        BY <1>2, <4>1, <4>2
    <3>2. CASE ~\E step \in Fetching : On(step) /\ ~Cached(step)
      BY <1>0, <1>11, <3>2 DEF KillJob
    <3> QED
      BY <3>1, <3>2
  <2>3. VesselTypes'
    BY <1>0, <1>1, <2>1, <2>2 DEF VesselTypes
  <2>4. job'.todo = <<>> /\ job'.cmd = "none"
    BY <2>1 DEF NoJob
  <2> QED
    BY <1>1, <2>1, <2>3, <2>4, EndFleet
<1> QED
  BY <1>3, <1>4, <1>5, <1>6, <1>7, <1>8, <1>9, <1>10, <1>11

\* Nothing that the invariant is about changes.
LEMMA StillFleet ==
    ASSUME FleetInv, DiskInv', UNCHANGED <<vstore, unattend, xml, domain, cache, rdpProfiles, job, toolFaults>>,
           running' \subseteq running
    PROVE  FleetInv'
<1>1. \A x : InTodo(x)' <=> InTodo(x)
  BY DEF InTodo, Has
<1>2. VesselTypes'
  BY DEF FleetInv, VesselTypes
<1>3. StepsFit'
  BY <1>1 DEF FleetInv, StepsFit, Between
<1>4. CfgFits'
  BY <1>1 DEF FleetInv, CfgFits, Guest, Alike
<1>5. Launching'
  BY <1>1 DEF FleetInv, Launching, CompileDomain
<1>6. DomainsFit'
  BY <1>1 DEF FleetInv, DomainsFit, Matches, CompileDomain
<1> QED
  BY <1>2, <1>3, <1>4, <1>5, <1>6 DEF FleetInv

LEMMA FleetInit == FlotillaInit => FleetInv
<1> SUFFICES ASSUME FlotillaInit PROVE FleetInv
  OBVIOUS
<1>1. DiskInv
  BY DiskInit
<1>2. job.todo = <<>> /\ job.cmd = "none"
  BY DEF FlotillaInit, NoJob
<1>3. Between(job.todo, 1, 8) /\ \A x : ~InTodo(x)
  BY <1>2, BetweenNone DEF InTodo
<1>4. VesselTypes
  BY NoDomainType DEF FlotillaInit, VesselTypes
<1>5. StepsFit
  BY <1>3 DEF StepsFit
<1>6. CfgFits
  <2>1. \A v \in Vessels : vstore[v] = NoVessel
    BY DEF FlotillaInit
  <2> QED
    BY <1>3, <2>1, NoVesselGuest DEF CfgFits
<1>7. Launching
  BY <1>2 DEF Launching
<1>8. DomainsFit
  <2>1. \A v \in Vessels : domain[v] = NoDomain
    BY DEF FlotillaInit
  <2> QED
    BY <1>3, <2>1 DEF DomainsFit, Matches
<1> QED
  BY <1>1, <1>4, <1>5, <1>6, <1>7, <1>8 DEF FleetInv

LEMMA FleetNext == FleetInv /\ [FlotillaNext]_flotillaVars => FleetInv'
<1> SUFFICES ASSUME FleetInv, [FlotillaNext]_flotillaVars PROVE FleetInv'
  OBVIOUS
<1>0. DiskInv'
  BY DiskNext DEF FleetInv
<1>1. CASE UNCHANGED flotillaVars
  BY <1>0, <1>1, StillFleet DEF flotillaVars
<1>2. ASSUME NEW v \in Vessels, NEW os \in Oses, NEW provision \in BOOLEAN,
             NEW allocate \in BOOLEAN, NEW iso \in {"", "path"},
             CreateVessel(v, os, iso, provision, allocate)
      PROVE  FleetInv'
  <2>1. iso \in IsoArgs
    BY DEF IsoArgs
  <2> QED
    BY <1>0, <1>2, <2>1, CreateFleet
<1>3. ASSUME NEW v \in Vessels, NEW os \in Oses, NEW provision \in BOOLEAN,
             NEW allocate \in BOOLEAN, NEW iso \in IsoArgs, NEW start \in BOOLEAN,
             Launch(v, os, iso, provision, allocate, start)
      PROVE  FleetInv'
  BY <1>0, <1>3, LaunchFleet
<1>4. ASSUME NEW v \in Vessels, GuestStops(v) \/ GuestInstalls(v)
      PROVE  FleetInv'
  BY <1>0, <1>4, StillFleet DEF GuestStops, GuestInstalls
<1> QED
  BY ZenonT(40), <1>0, <1>1, <1>2, <1>3, <1>4, CommandFleet, FetchFleet, QuietFleet, SaveFleet, XmlFleet,
     UndefineFleet, DeleteFleet, DeleteCutFleet, ProfileFleet DEF FlotillaNext

LEMMA FleetMeaning == FleetInv => VesselInv
<1> SUFFICES ASSUME FleetInv PROVE VesselInv
  OBVIOUS
<1>1. FltTypeOK
  BY DEF FleetInv, DiskInv, Types, DiskStates, VesselTypes, CfgFits, Guest, FltTypeOK
<1>2. ProvisionedHasIso
  BY DEF FleetInv, CfgFits, ProvisionedHasIso
<1>3. DomainCurrent
  <2> SUFFICES ASSUME job.todo = <<>>, NEW v \in Vessels,
                      \/ toolFaults = 0 /\ domain[v] # NoDomain
                      \/ job.on = v /\ job.rc = 0 /\ job.cmd \in {"launch", "define"}
               PROVE  vstore[v].saved /\ domain[v] = CompileDomain(vstore[v])
    BY DEF DomainCurrent
  <2>1. \A x : ~InTodo(x)
    BY BetweenNone DEF InTodo
  <2>2. CASE toolFaults = 0 /\ domain[v] # NoDomain
    BY <2>1, <2>2 DEF FleetInv, DomainsFit, Matches
  <2>3. CASE job.on = v /\ job.rc = 0 /\ job.cmd \in {"launch", "define"}
    BY <2>1, <2>3 DEF FleetInv, Launching
  <2> QED
    BY <2>2, <2>3
<1> QED
  BY <1>1, <1>2, <1>3 DEF VesselInv

\* Between commands, what is defined is what the vessel's record compiles to,
\* unless a host tool failed or a command was killed; a launch or a define that
\* ends with status 0 has defined it even then.  A vessel recorded as
\* provisioned has its ISO whatever failed.
THEOREM VesselsAreTrue == FlotillaSpec => []VesselInv
<1>1. FleetInv /\ [FlotillaNext]_flotillaVars => FleetInv'
  BY FleetNext
<1> QED
  BY <1>1, FleetInit, FleetMeaning, PTL DEF FlotillaSpec

-----------------------------------------------------------------------------
(* LAUNCHERS AND BARRELS.  Lists of steps *)

\* A set of natural numbers has a smallest one.
LEMMA Smallest ==
    ASSUME NEW T, T \subseteq Nat, T # {}
    PROVE  \E x \in T : \A y \in T : ~(y < x)
<1>1. PICK x \in T : \A y \in T : ~(<<y, x>> \in OpToRel(<, Nat))
  BY NatLessThanWellFounded, WFMin
<1>2. ASSUME NEW y \in T, y < x PROVE FALSE
  <2>1. <<y, x>> \in OpToRel(<, Nat)
    BY <1>2, Zenon DEF OpToRel
  <2> QED BY <2>1, <1>1
<1> QED BY <1>2

\* Induction up to n, on a set.
LEMMA UpTo ==
    ASSUME NEW n \in Nat, NEW Good, 0 \in Good,
           \A i \in 0..n : i < n /\ i \in Good => i + 1 \in Good
    PROVE  \A i \in 0..n : i \in Good
<1> DEFINE Bad == {i \in 0..n : i \notin Good}
<1> SUFFICES ASSUME Bad # {} PROVE FALSE
  OBVIOUS
<1>1. PICK x \in Bad : \A y \in Bad : ~(y < x)
  <2> Bad \subseteq Nat
    OBVIOUS
  <2> HIDE DEF Bad
  <2> QED BY Smallest
<1>2. x # 0 /\ x - 1 \in 0..n /\ x - 1 < n /\ (x - 1) + 1 = x
  OBVIOUS
<1>3. x - 1 \in Good
  BY <1>1, <1>2
<1> QED BY <1>2, <1>3

\* The partial results of a flattening, up to the m-th.
Flattens(f, seqs, m, S) ==
    /\ f \in [1..m -> Seq(S)]
    /\ \A i \in 1..m : f[i] = IF i = 1 THEN seqs[i] ELSE f[i - 1] \o seqs[i]

\* A flattened sequence of sequences over S is one over S.
LEMMA FlattenType ==
    ASSUME NEW S, NEW seqs \in Seq(Seq(S))
    PROVE  FlattenSeq(seqs) \in Seq(S)
<1> DEFINE n == Len(seqs)
<1>0. n \in Nat /\ \A i \in 1..n : seqs[i] \in Seq(S)
  OBVIOUS
<1>1. CASE n = 0
  <2>1. seqs = <<>>
    BY <1>1
  <2> QED BY <1>1, <2>1 DEF FlattenSeq
<1>2. CASE n # 0
  <2> DEFINE Got(m) == \E f : Flattens(f, seqs, m, S)
             Can == {m \in 0..n : Got(m)}
  <2>1. 0 \in Can
    <3>1. [i \in 1..0 |-> <<>>] \in [1..0 -> Seq(S)]
      OBVIOUS
    <3>2. Flattens([i \in 1..0 |-> <<>>], seqs, 0, S)
      BY <3>1 DEF Flattens
    <3> QED BY <3>2, <1>0
  <2>2. ASSUME NEW m \in 0..n, m < n, m \in Can PROVE m + 1 \in Can
    <3>1. PICK f : Flattens(f, seqs, m, S)
      BY <2>2
    <3>0. m + 1 \in 1..n /\ seqs[m + 1] \in Seq(S) /\ (m # 0 => m \in 1..m)
      BY <2>2, <1>0
    <3> DEFINE w == IF m = 0 THEN seqs[m + 1] ELSE f[m] \o seqs[m + 1]
               g == [i \in 1..m + 1 |-> IF i = m + 1 THEN w ELSE f[i]]
    <3>2. w \in Seq(S)
      <4>1. m # 0 => f[m] \in Seq(S)
        BY <3>0, <3>1 DEF Flattens
      <4> QED BY <4>1, <3>0, ConcatProperties
    <3>3. g \in [1..m + 1 -> Seq(S)]
      <4> HIDE DEF w
      <4> QED BY <3>1, <3>2, <2>2 DEF Flattens
    <3>4. ASSUME NEW i \in 1..m + 1
          PROVE  g[i] = IF i = 1 THEN seqs[i] ELSE g[i - 1] \o seqs[i]
      <4>1. CASE i = m + 1
        <5>1. m # 0 => m \in 1..m + 1 /\ m # m + 1 /\ i - 1 = m /\ i # 1 /\ g[i - 1] = f[m]
          BY <4>1, <2>2
        <5>2. m = 0 => i = 1
          BY <4>1
        <5>3. g[i] = w
          BY <4>1
        <5> QED BY <5>1, <5>2, <5>3, <4>1
      <4>2. CASE i # m + 1
        <5>1. i \in 1..m /\ g[i] = f[i]
          BY <4>2, <2>2
        <5>2. i # 1 => i - 1 \in 1..m + 1 /\ i - 1 # m + 1 /\ g[i - 1] = f[i - 1]
          BY <5>1, <2>2
        <5> QED BY <5>1, <5>2, <3>1 DEF Flattens
      <4> QED BY <4>1, <4>2
    <3>5. Flattens(g, seqs, m + 1, S)
      <4> HIDE DEF g
      <4> QED BY <3>3, <3>4 DEF Flattens
    <3> QED BY <3>5, <3>0, <1>0
  <2>3. n \in Can
    <3>1. \A i \in 0..n : i \in Can
      <4> HIDE DEF Can
      <4> QED BY <2>1, <2>2, <1>0, UpTo
    <3>2. n \in 0..n
      BY <1>0
    <3> HIDE DEF Can, n
    <3> QED BY <3>1, <3>2
  <2> DEFINE Eq(g) == g = [i \in 1..n |-> IF i = 1 THEN seqs[i] ELSE g[i - 1] \o seqs[i]]
  <2>4. \E g : Eq(g)
    <3>1. PICK f : Flattens(f, seqs, n, S)
      BY <2>3
    <3>2. Eq(f)
      BY <3>1 DEF Flattens
    <3> HIDE DEF Eq
    <3> QED BY <3>2
  <2>5. \E g : Eq(g) /\ FlattenSeq(seqs) = g[n]
    <3> HIDE DEF Can
    <3> QED BY <1>2, <2>4, Zenon DEF FlattenSeq
  <2>6. PICK g : Eq(g) /\ FlattenSeq(seqs) = g[n]
    BY <2>5
  <2> DEFINE Good == {i \in 0..n : i # 0 => g[i] \in Seq(S)}
  <2>7. 0 \in Good
    BY <1>0
  <2>8. ASSUME NEW i \in 0..n, i < n, i \in Good PROVE i + 1 \in Good
    <3>1. i + 1 \in 1..n /\ (i + 1) - 1 = i /\ seqs[i + 1] \in Seq(S) /\ i + 1 \in 0..n
      BY <2>8, <1>0
    <3>2. g[i + 1] = IF i + 1 = 1 THEN seqs[i + 1] ELSE g[i] \o seqs[i + 1]
      <4> HIDE DEF n
      <4> QED BY <2>6, <3>1
    <3>3. i # 0 => g[i] \in Seq(S)
      BY <2>8
    <3>4. g[i + 1] \in Seq(S)
      <4>1. i # 0 => g[i] \o seqs[i + 1] \in Seq(S)
        BY <3>1, <3>3, ConcatProperties
      <4> QED BY <4>1, <3>1, <3>2
    <3> QED BY <3>4, <3>1
  <2>9. \A i \in 0..n : i \in Good
    <3> HIDE DEF Good
    <3> QED BY <2>7, <2>8, <1>0, UpTo
  <2>10. n \in 0..n /\ n # 0
    BY <1>0, <1>2
  <2>11. g[n] \in Seq(S)
    <3> HIDE DEF n
    <3> QED BY <2>9, <2>10
  <2> QED BY <2>6, <2>11
<1> QED BY <1>1, <1>2

\* The elements of a finite set in some order.
LEMMA OrderType ==
    ASSUME NEW S, IsFiniteSet(S) PROVE SetToSeq(S) \in Seq(S)
<1>1. Cardinality(S) \in Nat /\ ExistsBijection(1..Cardinality(S), S)
  BY FS_CardinalityType
<1>2. \E f \in [1..Cardinality(S) -> S] : IsInjective(f)
  BY <1>1 DEF ExistsBijection, Bijection, Injection
<1>3. SetToSeq(S) \in [1..Cardinality(S) -> S]
  BY <1>2, Zenon DEF SetToSeq
<1> QED BY <1>1, <1>3

-----------------------------------------------------------------------------
(* What commands are made of *)

\* The configurations a command may write.
Cfgs == [saved : BOOLEAN, programs : SUBSET Programs, verbs : BOOLEAN]
\* Steps that are not operations of a plan.
NoOps(S) == \A x \in S : x.do # "op" /\ x.cfg \in Cfgs
Quiet(todo) == \E S : NoOps(S) /\ todo \in Seq(S)

LEMMA StepFields ==
    \A do, id, key : /\ Step(do, id, key).do = do /\ Step(do, id, key).key = key
                     /\ Step(do, id, key).cfg \in Cfgs
BY DEF Step, NoBarrel, Cfgs

LEMMA QuietNothing == Quiet(<<>>)
<1>1. NoOps({}) /\ <<>> \in Seq({})
  BY DEF NoOps
<1> QED BY <1>1 DEF Quiet

LEMMA QuietOne == ASSUME NEW x, x.do # "op", x.cfg \in Cfgs PROVE Quiet(<<x>>)
<1>1. NoOps({x}) /\ <<x>> \in Seq({x})
  BY DEF NoOps
<1> QED BY <1>1 DEF Quiet

LEMMA QuietBoth == ASSUME NEW q, NEW r, Quiet(q), Quiet(r) PROVE Quiet(q \o r)
<1>1. PICK S : NoOps(S) /\ q \in Seq(S)
  BY DEF Quiet
<1>2. PICK T : NoOps(T) /\ r \in Seq(T)
  BY DEF Quiet
<1>3. NoOps(S \cup T)
  BY <1>1, <1>2 DEF NoOps
<1>4. q \in Seq(S \cup T) /\ r \in Seq(S \cup T)
  BY <1>1, <1>2
<1>5. q \o r \in Seq(S \cup T)
  BY <1>4, ConcatProperties
<1> QED BY <1>3, <1>5 DEF Quiet

LEMMA QuietSave == ASSUME NEW cfg \in Cfgs PROVE Quiet(Save(cfg))
<1> DEFINE x == [do |-> "save", id |-> Nothing, key |-> Nothing, cfg |-> cfg]
<1>1. x.do # "op" /\ x.cfg \in Cfgs
  OBVIOUS
<1> HIDE DEF x
<1>2. Quiet(<<x>>)
  BY <1>1, QuietOne
<1> QED BY <1>2 DEF Save, x

LEMMA QuietOneStep == ASSUME NEW do, do # "op", NEW id, NEW key PROVE Quiet(<<Step(do, id, key)>>)
<1> DEFINE x == Step(do, id, key)
<1>1. x.do # "op" /\ x.cfg \in Cfgs
  BY StepFields
<1> HIDE DEF x
<1>2. Quiet(<<x>>)
  BY <1>1, QuietOne
<1> QED BY <1>2 DEF x

LEMMA QuietOnly == ASSUME NEW do, do # "op" PROVE Quiet(Only(do))
BY QuietOneStep DEF Only

\* The steps about the launchers of a barrel.
LauncherDos == {"write_entry", "remove_entry", "icon", "remove_icon", "load_identity",
                "register", "unregister"}
LauncherSteps(b) == {Step(do, DrydockId(b, p), p) : do \in LauncherDos, p \in Programs}

LEMMA LauncherStepsQuiet == \A b : NoOps(LauncherSteps(b))
<1> SUFFICES ASSUME NEW b, NEW do \in LauncherDos, NEW p \in Programs
             PROVE  Step(do, DrydockId(b, p), p).do # "op" /\ Step(do, DrydockId(b, p), p).cfg \in Cfgs
  BY DEF NoOps, LauncherSteps
<1> QED BY StepFields DEF LauncherDos

LEMMA LauncherType ==
    ASSUME NEW b, NEW p \in Programs
    PROVE  Launcher(b, p) \in Seq(LauncherSteps(b)) /\ Unwire(b, p) \in Seq(LauncherSteps(b))
<1> DEFINE id == DrydockId(b, p)
           S == LauncherSteps(b)
           a == Step("write_entry", id, p)
           c == Step("icon", id, p)
           d == Step("load_identity", id, p)
           e == Step("register", id, p)
           f == Step("remove_entry", id, p)
           g == Step("unregister", id, p)
           h == Step("remove_icon", id, p)
<1>1. {a, c, d, e, f, g, h} \subseteq S
  BY DEF LauncherSteps, LauncherDos
<1>2. Launcher(b, p) = <<a>> \o <<c, d, e>> /\ Unwire(b, p) = <<f, d, g, h>>
  BY DEF Launcher, Wire, Unwire
<1> HIDE DEF a, c, d, e, f, g, h, S
<1>3. <<a>> \in Seq(S) /\ <<c, d, e>> \in Seq(S) /\ <<f, d, g, h>> \in Seq(S)
  BY <1>1
<1>4. <<a>> \o <<c, d, e>> \in Seq(S)
  BY <1>3, ConcatProperties
<1> QED BY <1>2, <1>3, <1>4 DEF S

\* A batch of launchers, made or taken away.
LEMMA QuietBatch ==
    ASSUME NEW b, NEW ps \in SUBSET Programs
    PROVE  Quiet(ForEach(Launcher, b, ps)) /\ Quiet(ForEach(Unwire, b, ps))
<1> DEFINE order == SetToSeq(ps)
           S == LauncherSteps(b)
           made == [i \in 1..Len(order) |-> Launcher(b, order[i])]
           gone == [i \in 1..Len(order) |-> Unwire(b, order[i])]
<1>1. order \in Seq(ps)
  <2>1. IsFiniteSet(ps)
    BY CustomsAssumption, FS_Subset
  <2> QED BY <2>1, OrderType
<1>2. Len(order) \in Nat /\ \A i \in 1..Len(order) : order[i] \in Programs
  <2> HIDE DEF order
  <2> QED BY <1>1
<1>3. \A i \in 1..Len(order) : Launcher(b, order[i]) \in Seq(S) /\ Unwire(b, order[i]) \in Seq(S)
  <2> HIDE DEF order, S
  <2> QED BY <1>2, LauncherType DEF S
<1>4. made \in Seq(Seq(S)) /\ gone \in Seq(Seq(S))
  <2> HIDE DEF order, S
  <2> QED BY <1>2, <1>3
<1>5. FlattenSeq(made) \in Seq(S) /\ FlattenSeq(gone) \in Seq(S)
  <2> HIDE DEF made, gone, S
  <2> QED BY <1>4, FlattenType
<1>6. ForEach(Launcher, b, ps) = FlattenSeq(made) /\ ForEach(Unwire, b, ps) = FlattenSeq(gone)
  BY DEF ForEach
<1>7. NoOps(S)
  BY LauncherStepsQuiet
<1> HIDE DEF made, gone, S, order
<1> QED BY <1>5, <1>6, <1>7 DEF Quiet

LEMMA QuietRefresh == \A ps : Quiet(RefreshIf(ps))
BY QuietOnly, QuietNothing DEF RefreshIf

LEMMA QuietMaterialized == ASSUME NEW r \in Recipes PROVE Quiet(Materialized(r))
<1>1. BarrelFromRecipe(r) \in Cfgs /\ r.programs \in SUBSET Programs
  BY RecipesAssumption DEF BarrelFromRecipe, Cfgs
<1> DEFINE a == Save(BarrelFromRecipe(r))
           c == ForEach(Launcher, r.id, r.programs)
           d == RefreshIf(r.programs)
<1>2. Quiet(a) /\ Quiet(d)
  BY <1>1, QuietSave, QuietRefresh
<1>3. Quiet(c)
  BY <1>1, QuietBatch
<1>4. Materialized(r) = (a \o c) \o d
  BY DEF Materialized
<1> HIDE DEF a, c, d
<1>5. Quiet(a \o c)
  BY <1>2, <1>3, QuietBoth
<1>6. Quiet((a \o c) \o d)
  BY <1>2, <1>5, QuietBoth
<1> QED BY <1>4, <1>6

-----------------------------------------------------------------------------
(* The invariant *)

\* The actions of a plan, and the step that is the user's.
Actions == STRING \cup {"manual"}
Statuses == {"ok", "failed", "manual", "skipped"}
ShellShape(sh) ==
    /\ sh = [cmd |-> sh.cmd, on |-> sh.on, todo |-> sh.todo, rc |-> sh.rc, ids |-> sh.ids,
             plan |-> sh.plan, did |-> sh.did, out |-> sh.out, raced |-> sh.raced]
    /\ \E S : (\A x \in S : x.cfg \in Cfgs) /\ sh.todo \in Seq(S)
    /\ sh.plan \in Seq(Actions) /\ sh.did \in Seq(Nat) /\ sh.out \in Seq(Statuses)

\* The plan's operations come last, and those left are the plan from where the
\* report ends.
Remaining(sh) ==
    LET n == Len(sh.todo)
        left == Len(sh.plan) - Len(sh.out)
    IN  /\ left \in 0..n
        /\ \A i \in 1..n :
             IF i <= n - left THEN sh.todo[i].do # "op"
             ELSE sh.todo[i].do = "op" /\ sh.todo[i].key = sh.plan[(Len(sh.plan) - n) + i]
\* What was done is the beginning of the plan.
InOrder(sh) ==
    /\ Len(sh.did) <= Len(sh.plan)
    /\ \A i \in 1..Len(sh.did) : sh.did[i] = i /\ sh.plan[i] # "manual"
\* Until a command halts every operation was done; what a command that ends
\* with status 0 has not done is for the user.
Going(sh) ==
    sh.todo # <<>> =>
        /\ Remaining(sh) /\ Len(sh.did) = Len(sh.out)
        /\ \A i \in 1..Len(sh.out) : sh.out[i] = "ok"
AtEnd(sh) ==
    sh.todo = <<>> /\ sh.rc = 0 =>
        /\ Len(sh.plan) <= Len(sh.did) + 1
        /\ \A i \in Len(sh.did) + 1..Len(sh.plan) : sh.plan[i] = "manual"
ShellInv(sh) == ShellShape(sh) /\ InOrder(sh) /\ Going(sh) /\ AtEnd(sh)

PlanInv ==
    /\ shells = [s \in Shells |-> shells[s]] /\ \A s \in Shells : ShellInv(shells[s])
    /\ store \in [Barrels -> Cfgs]

\* A shell that differs in what the invariant does not speak of.
SamePlan(sh, new) ==
    /\ new = [cmd |-> new.cmd, on |-> new.on, todo |-> new.todo, rc |-> new.rc, ids |-> new.ids,
              plan |-> new.plan, did |-> new.did, out |-> new.out, raced |-> new.raced]
    /\ new.plan = sh.plan /\ new.did = sh.did /\ new.out = sh.out
LEMMA AlikeShell ==
    ASSUME NEW sh, NEW new, ShellInv(sh), SamePlan(sh, new), new.todo = sh.todo, new.rc = sh.rc
    PROVE  ShellInv(new)
<1>1. ShellShape(new)
  BY DEF ShellInv, ShellShape, SamePlan
<1>2. InOrder(new)
  BY DEF ShellInv, InOrder, SamePlan
<1>3. Going(new)
  BY DEF ShellInv, Going, Remaining, SamePlan
<1>4. AtEnd(new)
  BY DEF ShellInv, AtEnd, SamePlan
<1> QED BY <1>1, <1>2, <1>3, <1>4 DEF ShellInv

\* A command that fails, or is killed before its first operation.
LEMMA FailedShell ==
    ASSUME NEW sh, NEW new, ShellInv(sh), SamePlan(sh, new), new.todo = <<>>, new.rc # 0
    PROVE  ShellInv(new)
<1>1. ShellShape(new)
  <2>1. (\A x \in {} : x.cfg \in Cfgs) /\ <<>> \in Seq({})
    OBVIOUS
  <2>2. \E S : (\A x \in S : x.cfg \in Cfgs) /\ new.todo \in Seq(S)
    BY <2>1
  <2> QED BY <2>2 DEF ShellInv, ShellShape, SamePlan
<1>2. InOrder(new)
  BY DEF ShellInv, InOrder, SamePlan
<1> QED BY <1>1, <1>2 DEF ShellInv, Going, AtEnd

\* A step that is not an operation.
LEMMA StepDone ==
    ASSUME NEW sh, NEW new, ShellInv(sh), SamePlan(sh, new),
           sh.todo # <<>>, Head(sh.todo).do # "op", new.todo = Tail(sh.todo), new.rc = sh.rc
    PROVE  ShellInv(new)
<1> DEFINE n == Len(sh.todo)
           left == Len(sh.plan) - Len(sh.out)
<1>1. PICK S : (\A x \in S : x.cfg \in Cfgs) /\ sh.todo \in Seq(S)
  BY DEF ShellInv, ShellShape
<1>2. /\ n \in Nat /\ n > 0 /\ Head(sh.todo) = sh.todo[1] /\ Len(new.todo) = n - 1
      /\ new.todo \in Seq(S) /\ \A i \in 1..n - 1 : new.todo[i] = sh.todo[i + 1]
  BY <1>1, HeadTailProperties
<1>3. Len(sh.plan) \in Nat /\ Len(sh.out) \in Nat /\ Len(sh.did) \in Nat
  BY DEF ShellInv, ShellShape
<1>4. /\ left \in 0..n /\ Len(sh.did) = Len(sh.out)
      /\ \A i \in 1..n :
             IF i <= n - left THEN sh.todo[i].do # "op"
             ELSE sh.todo[i].do = "op" /\ sh.todo[i].key = sh.plan[(Len(sh.plan) - n) + i]
  BY <1>2 DEF ShellInv, Going, Remaining
<1>n. left \in Int /\ n \in Int /\ left = Len(sh.plan) - Len(sh.out)
  BY <1>2, <1>3
<1>5. left \in 0..n - 1
  <2>1. 1 \in 1..n /\ sh.todo[1].do # "op"
    BY <1>2
  <2>2. 1 <= n - left
    <3> HIDE DEF n, left
    <3> QED BY <2>1, <1>4
  <2> HIDE DEF n, left
  <2> QED BY <2>2, <1>4, <1>2, <1>n
<1>6. Remaining(new)
  <2>1. ASSUME NEW i \in 1..n - 1
        PROVE  IF i <= (n - 1) - left THEN new.todo[i].do # "op"
               ELSE new.todo[i].do = "op" /\ new.todo[i].key = sh.plan[(Len(sh.plan) - (n - 1)) + i]
    <3>1. i + 1 \in 1..n /\ i \in Int /\ new.todo[i] = sh.todo[i + 1]
      BY <1>2
    <3> DEFINE all == Len(sh.plan)
    <3>a. left \in Int /\ n \in Int /\ all \in Int
      BY <1>n, <1>3
    <3>2. i <= (n - 1) - left <=> i + 1 <= n - left
      <4> HIDE DEF n, left
      <4> QED BY <3>1, <3>a
    <3>3. (Len(sh.plan) - (n - 1)) + i = (Len(sh.plan) - n) + (i + 1)
      <4> HIDE DEF n, left, all
      <4>1. (all - (n - 1)) + i = (all - n) + (i + 1)
        BY <3>1, <3>a
      <4> QED BY <4>1 DEF all
    <3>4. IF i + 1 <= n - left THEN sh.todo[i + 1].do # "op"
          ELSE sh.todo[i + 1].do = "op" /\ sh.todo[i + 1].key = sh.plan[(Len(sh.plan) - n) + (i + 1)]
      BY <3>1, <1>4
    <3> HIDE DEF n, left
    <3> QED BY <3>1, <3>2, <3>3, <3>4
  <2> QED BY <2>1, <1>2, <1>5 DEF Remaining, SamePlan
<1>7. ShellShape(new)
  BY <1>1, <1>2 DEF ShellInv, ShellShape, SamePlan
<1>8. InOrder(new)
  BY DEF ShellInv, InOrder, SamePlan
<1>9. Going(new)
  BY <1>6, <1>4, <1>2 DEF ShellInv, Going, SamePlan
<1>10. AtEnd(new)
  <2>1. CASE new.todo = <<>>
    <3>1. n - 1 = 0
      BY <2>1, <1>2
    <3>2. left = 0
      <4> HIDE DEF n, left
      <4> QED BY <3>1, <1>5, <1>n
    <3>3. Len(sh.did) = Len(sh.plan)
      <4>1. Len(sh.did) = Len(sh.out)
        BY <1>4
      <4>2. PICK all, k : all = Len(sh.plan) /\ k = Len(sh.out) /\ all \in Nat /\ k \in Nat
        BY <1>3
      <4>3. left = all - k
        BY <4>2, <1>n
      <4>4. all = k
        <5> HIDE DEF n, left
        <5> QED BY <3>2, <4>2, <4>3
      <4> QED BY <4>1, <4>2, <4>4
    <3> QED BY <3>3, <1>3 DEF AtEnd, SamePlan
  <2> QED BY <2>1 DEF AtEnd
<1> QED BY <1>7, <1>8, <1>9, <1>10 DEF ShellInv

\* A shell with k operations done and n left.
DoneAndLeft(sh, n, k) ==
    /\ n > 0 /\ n = Len(sh.todo) /\ k = Len(sh.did) /\ k = Len(sh.out)
    /\ Len(sh.plan) = k + n
    /\ sh.did \in Seq(Nat) /\ sh.out \in Seq(Statuses) /\ sh.plan \in Seq(Actions)
    /\ \A i \in 1..k : sh.did[i] = i /\ sh.plan[i] # "manual" /\ sh.out[i] = "ok"
    /\ \A i \in 1..n : sh.todo[i].do = "op" /\ sh.todo[i].key = sh.plan[k + i]
    /\ Head(sh.todo).key = sh.plan[k + 1]

\* What a shell with an operation next has done and has left.
LEMMA AtOp ==
    ASSUME NEW sh, ShellInv(sh), sh.todo # <<>>, Head(sh.todo).do = "op"
    PROVE  \E n \in Nat, k \in Nat : DoneAndLeft(sh, n, k)
<1> DEFINE n == Len(sh.todo)
           k == Len(sh.out)
           all == Len(sh.plan)
           left == all - k
<1>1. PICK S : (\A x \in S : x.cfg \in Cfgs) /\ sh.todo \in Seq(S)
  BY DEF ShellInv, ShellShape
<1>2. n \in Nat /\ n > 0 /\ Head(sh.todo) = sh.todo[1]
  BY <1>1, HeadTailProperties
<1>3. /\ all \in Nat /\ k \in Nat /\ Len(sh.did) = k
      /\ sh.did \in Seq(Nat) /\ sh.out \in Seq(Statuses) /\ sh.plan \in Seq(Actions)
  BY DEF ShellInv, ShellShape, Going
<1>4. /\ left \in 0..n
      /\ \A i \in 1..n :
             IF i <= n - left THEN sh.todo[i].do # "op"
             ELSE sh.todo[i].do = "op" /\ sh.todo[i].key = sh.plan[(all - n) + i]
  BY <1>2 DEF ShellInv, Going, Remaining
<1>5. \A i \in 1..k : sh.did[i] = i /\ sh.plan[i] # "manual" /\ sh.out[i] = "ok"
  BY <1>3 DEF ShellInv, InOrder, Going
<1>6. all = k + n
  <2>1. 1 \in 1..n /\ sh.todo[1].do = "op"
    BY <1>2
  <2>2. ~(1 <= n - left)
    <3> HIDE DEF n, left, k, all
    <3> QED BY <2>1, <1>4
  <2>3. left \in Int /\ left = all - k
    <3> HIDE DEF n, k, all
    <3> QED BY <1>3
  <2> HIDE DEF n, left, k, all
  <2> QED BY <2>2, <2>3, <1>2, <1>3, <1>4
<1>7. ASSUME NEW i \in 1..n PROVE sh.todo[i].do = "op" /\ sh.todo[i].key = sh.plan[k + i]
  <2>1. i \in Int /\ left = n
    <3> HIDE DEF n, k, all
    <3> QED BY <1>2, <1>3, <1>6
  <2>2. ~(i <= n - left) /\ (all - n) + i = k + i
    <3> HIDE DEF n, k, all, left
    <3> QED BY <1>2, <1>3, <1>6, <2>1
  <2> HIDE DEF n, k, all, left
  <2> QED BY <1>4, <2>2
<1>8. Head(sh.todo).key = sh.plan[k + 1]
  <2>1. 1 \in 1..n
    BY <1>2
  <2> HIDE DEF n, k
  <2> QED BY <2>1, <1>7, <1>2
<1>9. n \in Nat /\ k \in Nat /\ DoneAndLeft(sh, n, k)
  <2> HIDE DEF n, k, all
  <2> QED BY <1>2, <1>3, <1>5, <1>6, <1>7, <1>8 DEF DoneAndLeft, n, k, all
<1> HIDE DEF n, k, all
<1> QED BY <1>9

\* One operation: done, failed, or left to the user.
OpRest(sh, status) == IF Halts(status) THEN <<>> ELSE Tail(sh.todo)
OpSkipped(sh, status) == IF Halts(status) THEN Len(sh.todo) - 1 ELSE 0
OpOut(sh, status) == Append(sh.out, status) \o Skipped(OpSkipped(sh, status))
OpDid(sh, status) == IF status = "ok" THEN Append(sh.did, Len(sh.out) + 1) ELSE sh.did
OpRc(sh, status) ==
    IF OpRest(sh, status) = <<>> /\ ~ReportOk(OpOut(sh, status)) THEN 1 ELSE sh.rc
OpNext(sh, status) ==
    [sh EXCEPT !.todo = OpRest(sh, status), !.out = OpOut(sh, status),
               !.did = OpDid(sh, status), !.rc = OpRc(sh, status)]
LEMMA NineFields ==
    ASSUME NEW cmd, NEW on, NEW todo, NEW rc, NEW ids, NEW plan, NEW did, NEW out, NEW raced, NEW new,
           new = [cmd |-> cmd, on |-> on, todo |-> todo, rc |-> rc, ids |-> ids,
                  plan |-> plan, did |-> did, out |-> out, raced |-> raced]
    PROVE  /\ new = [cmd |-> new.cmd, on |-> new.on, todo |-> new.todo, rc |-> new.rc, ids |-> new.ids,
                     plan |-> new.plan, did |-> new.did, out |-> new.out, raced |-> new.raced]
           /\ new.cmd = cmd /\ new.on = on /\ new.todo = todo /\ new.rc = rc /\ new.ids = ids
           /\ new.plan = plan /\ new.did = did /\ new.out = out /\ new.raced = raced
<1>1. /\ new.cmd = cmd /\ new.on = on /\ new.todo = todo /\ new.rc = rc /\ new.ids = ids
      /\ new.plan = plan /\ new.did = did /\ new.out = out /\ new.raced = raced
  OBVIOUS
<1> QED BY <1>1, Zenon

LEMMA OpFields ==
    ASSUME NEW sh, ShellShape(sh), NEW status, NEW new, new = OpNext(sh, status)
    PROVE  /\ new = [cmd |-> new.cmd, on |-> new.on, todo |-> new.todo, rc |-> new.rc, ids |-> new.ids,
                     plan |-> new.plan, did |-> new.did, out |-> new.out, raced |-> new.raced]
           /\ new.plan = sh.plan /\ new.todo = OpRest(sh, status) /\ new.out = OpOut(sh, status)
           /\ new.did = OpDid(sh, status) /\ new.rc = OpRc(sh, status)
<1> DEFINE rest == OpRest(sh, status)
           out == OpOut(sh, status)
           did == OpDid(sh, status)
           rc == OpRc(sh, status)
<1>1. new = [sh EXCEPT !.todo = rest, !.out = out, !.did = did, !.rc = rc]
  BY DEF OpNext
<1> HIDE DEF rest, out, did, rc
<1>2. sh = [cmd |-> sh.cmd, on |-> sh.on, todo |-> sh.todo, rc |-> sh.rc, ids |-> sh.ids,
             plan |-> sh.plan, did |-> sh.did, out |-> sh.out, raced |-> sh.raced]
  BY DEF ShellShape
<1>3. new = [cmd |-> sh.cmd, on |-> sh.on, todo |-> rest, rc |-> rc, ids |-> sh.ids,
             plan |-> sh.plan, did |-> did, out |-> out, raced |-> sh.raced]
  BY <1>1, <1>2
<1>4. /\ new = [cmd |-> new.cmd, on |-> new.on, todo |-> new.todo, rc |-> new.rc, ids |-> new.ids,
                plan |-> new.plan, did |-> new.did, out |-> new.out, raced |-> new.raced]
      /\ new.plan = sh.plan /\ new.todo = rest /\ new.out = out /\ new.did = did /\ new.rc = rc
  <2>1. /\ new = [cmd |-> new.cmd, on |-> new.on, todo |-> new.todo, rc |-> new.rc, ids |-> new.ids,
                  plan |-> new.plan, did |-> new.did, out |-> new.out, raced |-> new.raced]
        /\ new.cmd = sh.cmd /\ new.on = sh.on /\ new.todo = rest /\ new.rc = rc /\ new.ids = sh.ids
        /\ new.plan = sh.plan /\ new.did = did /\ new.out = out /\ new.raced = sh.raced
    <3> PICK cmd, on, ids, plan, raced :
               cmd = sh.cmd /\ on = sh.on /\ ids = sh.ids /\ plan = sh.plan /\ raced = sh.raced
      OBVIOUS
    <3>1. new = [cmd |-> cmd, on |-> on, todo |-> rest, rc |-> rc, ids |-> ids,
                 plan |-> plan, did |-> did, out |-> out, raced |-> raced]
      BY <1>3
    <3>2. /\ new = [cmd |-> new.cmd, on |-> new.on, todo |-> new.todo, rc |-> new.rc, ids |-> new.ids,
                    plan |-> new.plan, did |-> new.did, out |-> new.out, raced |-> new.raced]
          /\ new.cmd = cmd /\ new.on = on /\ new.todo = rest /\ new.rc = rc /\ new.ids = ids
          /\ new.plan = plan /\ new.did = did /\ new.out = out /\ new.raced = raced
      BY <3>1, NineFields
    <3> QED BY <3>2
  <2> QED BY <2>1, Zenon
<1> QED BY <1>4 DEF rest, out, did, rc

LEMMA OpStep ==
    ASSUME NEW sh, ShellInv(sh), sh.todo # <<>>, Head(sh.todo).do = "op",
           NEW status \in {"ok", "failed", "manual"}, status = "manual" <=> Head(sh.todo).key = "manual",
           NEW new, new = OpNext(sh, status)
    PROVE  ShellInv(new)
<1>0. PICK n \in Nat, k \in Nat : DoneAndLeft(sh, n, k)
  BY AtOp
<1>1. /\ n > 0 /\ n = Len(sh.todo) /\ k = Len(sh.did) /\ k = Len(sh.out)
      /\ Len(sh.plan) = k + n
      /\ sh.did \in Seq(Nat) /\ sh.out \in Seq(Statuses) /\ sh.plan \in Seq(Actions)
      /\ \A i \in 1..k : sh.did[i] = i /\ sh.plan[i] # "manual" /\ sh.out[i] = "ok"
      /\ \A i \in 1..n : sh.todo[i].do = "op" /\ sh.todo[i].key = sh.plan[k + i]
      /\ Head(sh.todo).key = sh.plan[k + 1]
  BY <1>0 DEF DoneAndLeft
<1>2. PICK S : (\A x \in S : x.cfg \in Cfgs) /\ sh.todo \in Seq(S)
  BY DEF ShellInv, ShellShape
<1> DEFINE rest == OpRest(sh, status)
           skipped == OpSkipped(sh, status)
           said == Append(sh.out, status)
           out == said \o Skipped(skipped)
<1>3. /\ new = [cmd |-> new.cmd, on |-> new.on, todo |-> new.todo, rc |-> new.rc, ids |-> new.ids,
                     plan |-> new.plan, did |-> new.did, out |-> new.out, raced |-> new.raced]
      /\ new.plan = sh.plan /\ new.todo = rest /\ new.out = out
      /\ new.did = IF status = "ok" THEN Append(sh.did, Len(sh.out) + 1) ELSE sh.did
      /\ new.rc = IF rest = <<>> /\ ~ReportOk(out) THEN 1 ELSE sh.rc
  <2>1. ShellShape(sh) /\ new = OpNext(sh, status)
    BY DEF ShellInv
  <2>2. /\ new = [cmd |-> new.cmd, on |-> new.on, todo |-> new.todo, rc |-> new.rc, ids |-> new.ids,
                  plan |-> new.plan, did |-> new.did, out |-> new.out, raced |-> new.raced]
        /\ new.plan = sh.plan /\ new.todo = OpRest(sh, status) /\ new.out = OpOut(sh, status)
        /\ new.did = OpDid(sh, status) /\ new.rc = OpRc(sh, status)
    BY <2>1, OpFields, Zenon
  <2>3. out = OpOut(sh, status)
    BY DEF OpOut
  <2>4. new.rc = IF rest = <<>> /\ ~ReportOk(out) THEN 1 ELSE sh.rc
    BY <2>2, <2>3 DEF OpRc
  <2>5. new.did = IF status = "ok" THEN Append(sh.did, Len(sh.out) + 1) ELSE sh.did
    BY <2>2 DEF OpDid
  <2> HIDE DEF out
  <2> QED BY <2>2, <2>3, <2>4, <2>5
<1>t. n \in Nat /\ k \in Nat /\ n > 0
  BY <1>1
<1>q. /\ \A i \in 1..k : sh.did[i] = i /\ sh.plan[i] # "manual" /\ sh.out[i] = "ok"
      /\ \A i \in 1..n : sh.todo[i].do = "op" /\ sh.todo[i].key = sh.plan[k + i]
  BY <1>1
<1>4. /\ said \in Seq(Statuses) /\ Len(said) = k + 1 /\ said[k + 1] = status
      /\ \A i \in 1..k : said[i] = sh.out[i]
  <2>1. status \in Statuses
    BY DEF Statuses
  <2> QED BY <1>1, <2>1, AppendProperties
<1>5. /\ skipped \in Nat /\ skipped = IF Halts(status) THEN n - 1 ELSE 0
      /\ rest \in Seq(S)
  BY <1>1, <1>2, HeadTailProperties DEF Halts, OpRest, OpSkipped
<1>6. /\ Skipped(skipped) \in Seq(Statuses) /\ Len(Skipped(skipped)) = skipped
      /\ \A i \in 1..skipped : Skipped(skipped)[i] = "skipped"
  <2> HIDE DEF skipped
  <2> QED BY <1>5 DEF Skipped, Statuses
<1> HIDE DEF skipped, said, rest
<1>7. /\ out \in Seq(Statuses) /\ Len(out) = (k + 1) + skipped
      /\ \A i \in 1..k + 1 : out[i] = said[i]
      /\ \A i \in 1..skipped : out[(k + 1) + i] = "skipped"
  <2>1. /\ out \in Seq(Statuses) /\ Len(out) = Len(said) + Len(Skipped(skipped))
        /\ \A i \in 1..Len(said) : out[i] = said[i]
    <3> PICK w : w = Skipped(skipped)
      OBVIOUS
    <3>1. said \in Seq(Statuses) /\ w \in Seq(Statuses) /\ out = said \o w
      BY <1>4, <1>6
    <3> HIDE DEF out
    <3> QED BY <3>1, ConcatProperties
  <2>2. ASSUME NEW i \in 1..skipped PROVE out[(k + 1) + i] = "skipped"
    <3>1. (k + 1) + i \in Len(said) + 1..Len(said) + Len(Skipped(skipped))
      BY <1>t, <1>4, <1>5, <1>6
    <3>2. out[(k + 1) + i] = Skipped(skipped)[((k + 1) + i) - Len(said)]
      <4> PICK w : w = Skipped(skipped)
        OBVIOUS
      <4>1. /\ said \in Seq(Statuses) /\ w \in Seq(Statuses) /\ out = said \o w
            /\ (k + 1) + i \in Len(said) + 1..Len(said) + Len(w)
        BY <3>1, <1>4, <1>6
      <4> HIDE DEF out
      <4> QED BY <4>1, ConcatProperties
    <3>3. ((k + 1) + i) - Len(said) = i
      BY <1>t, <1>4, <1>5
    <3> QED BY <3>2, <3>3, <1>6
  <2> QED BY <2>1, <2>2, <1>4, <1>6
<1> HIDE DEF out
<1>8. CASE status = "ok"
  <2>1. ~Halts(status) /\ skipped = 0 /\ rest = Tail(sh.todo)
    BY <1>8, <1>5 DEF Halts, rest, OpRest
  <2>2. /\ new.todo \in Seq(S) /\ Len(new.todo) = n - 1
        /\ \A i \in 1..n - 1 : new.todo[i] = sh.todo[i + 1]
    BY <2>1, <1>1, <1>2, <1>3, HeadTailProperties
  <2>3. /\ new.did \in Seq(Nat) /\ Len(new.did) = k + 1 /\ new.did[k + 1] = k + 1
        /\ \A i \in 1..k : new.did[i] = sh.did[i]
    <3>1. new.did = Append(sh.did, k + 1)
      BY <1>1, <1>3, <1>8
    <3>2. sh.did \in Seq(Nat) /\ Len(sh.did) = k /\ k + 1 \in Nat
      BY <1>1
    <3> QED BY <3>1, <3>2, <1>t, AppendProperties
  <2>4. sh.plan[k + 1] # "manual"
    BY <1>1, <1>8
  <2>5. ShellShape(new)
    BY <1>1, <1>2, <1>3, <1>7, <2>2, <2>3 DEF ShellShape
  <2>6. InOrder(new)
    <3>1. Len(new.did) <= Len(new.plan)
      <4>1. Len(new.plan) = k + n /\ Len(new.did) = k + 1
        BY <2>3, <1>1, <1>3
      <4> QED BY <4>1, <1>t
    <3>2. ASSUME NEW i \in 1..k + 1 PROVE new.did[i] = i /\ sh.plan[i] # "manual"
      <4>1. CASE i = k + 1
        BY <4>1, <2>3, <2>4
      <4>2. CASE i # k + 1
        <5>1. i \in 1..k
          BY <4>2
        <5> QED BY <5>1, <2>3, <1>1
      <4> QED BY <4>1, <4>2
    <3> QED BY <3>1, <3>2, <2>3, <1>3 DEF InOrder
  <2>7. Going(new)
    <3>1. Len(new.out) = k + 1 /\ \A i \in 1..k + 1 : new.out[i] = "ok"
      <4>1. Len(new.out) = k + 1
        BY <1>3, <1>7, <2>1, <1>1
      <4>2. ASSUME NEW i \in 1..k + 1 PROVE new.out[i] = "ok"
        <5>1. new.out[i] = said[i]
          BY <1>3, <1>7
        <5>2. CASE i = k + 1
          BY <5>1, <5>2, <1>4, <1>8
        <5>3. CASE i # k + 1
          <6>1. i \in 1..k
            BY <5>3
          <6> QED BY <6>1, <5>1, <1>4, <1>q
        <5> QED BY <5>2, <5>3
      <4> QED BY <4>1, <4>2
    <3>2. Len(new.plan) - Len(new.out) = n - 1 /\ Len(new.plan) - Len(new.todo) = k + 1
      <4>1. Len(new.plan) = k + n /\ Len(new.out) = k + 1 /\ Len(new.todo) = n - 1
        BY <3>1, <2>2, <1>1, <1>3
      <4> QED BY <4>1, <1>t
    <3>3. ASSUME NEW i \in 1..n - 1
          PROVE  new.todo[i].do = "op" /\ new.todo[i].key = new.plan[(k + 1) + i]
      <4>1. i + 1 \in 1..n /\ k + (i + 1) = (k + 1) + i
        BY <1>t
      <4>2. new.todo[i] = sh.todo[i + 1] /\ new.plan = sh.plan
        BY <2>2, <1>3
      <4> QED BY <4>1, <4>2, <1>q
    <3>4. Remaining(new)
      <4>1. Len(new.todo) = n - 1 /\ n - 1 \in 0..n - 1 /\ \A i \in 1..n - 1 : ~(i <= (n - 1) - (n - 1))
        BY <2>2, <1>1
      <4> QED BY <4>1, <3>2, <3>3 DEF Remaining
    <3> QED BY <3>1, <3>4, <2>3 DEF Going
  <2>8. AtEnd(new)
    <3>1. CASE new.todo = <<>>
      <4>1. n - 1 = 0
        BY <3>1, <2>2
      <4>2. Len(new.plan) = Len(new.did) /\ Len(new.did) \in Nat
        <5>1. Len(new.plan) = k + n /\ Len(new.did) = k + 1
          BY <2>3, <1>1, <1>3
        <5> QED BY <5>1, <4>1, <1>t
      <4> QED BY <4>2 DEF AtEnd
    <3> QED BY <3>1 DEF AtEnd
  <2> QED BY <2>5, <2>6, <2>7, <2>8 DEF ShellInv
<1>9. CASE status # "ok"
  <2>1. /\ Halts(status) /\ skipped = n - 1 /\ new.todo = <<>> /\ new.did = sh.did
        /\ new.rc = IF ~ReportOk(out) THEN 1 ELSE sh.rc
    BY <1>9, <1>5, <1>3 DEF Halts, rest, OpRest
  <2>2. ShellShape(new)
    <3>1. \E T : (\A x \in T : x.cfg \in Cfgs) /\ new.todo \in Seq(T)
      <4>1. (\A x \in {} : x.cfg \in Cfgs) /\ <<>> \in Seq({})
        OBVIOUS
      <4> QED BY <4>1, <2>1
    <3> QED BY <3>1, <1>1, <1>3, <1>7, <2>1 DEF ShellShape
  <2>3. InOrder(new)
    BY <1>3, <2>1 DEF ShellInv, InOrder
  <2>4. out[k + 1] = status /\ k + 1 \in 1..Len(out)
    <3>1. k + 1 \in 1..k + 1
      BY <1>t
    <3>2. k + 1 \in 1..Len(out)
      BY <1>t, <1>5, <1>7
    <3> QED BY <3>1, <3>2, <1>4, <1>7
  <2>5. CASE status = "failed"
    <3>1. ~ReportOk(out)
      BY <2>4, <2>5 DEF ReportOk
    <3>2. new.rc = 1
      BY <2>1, <3>1
    <3> QED BY <3>2, <2>1, <2>2, <2>3 DEF ShellInv, Going, AtEnd
  <2>6. CASE status = "manual" /\ n # 1
    <3>1. out[(k + 1) + 1] = "skipped" /\ (k + 1) + 1 \in 1..Len(out)
      <4>1. 1 \in 1..skipped
        BY <2>1, <2>6, <1>t
      <4>2. (k + 1) + 1 \in 1..Len(out)
        BY <4>1, <1>t, <1>5, <1>7
      <4> QED BY <4>1, <4>2, <1>7
    <3>2. ~ReportOk(out)
      BY <3>1 DEF ReportOk
    <3>3. new.rc = 1
      BY <2>1, <3>2
    <3> QED BY <3>3, <2>1, <2>2, <2>3 DEF ShellInv, Going, AtEnd
  <2>7. CASE status = "manual" /\ n = 1
    <3>1. /\ Len(new.plan) <= Len(new.did) + 1
          /\ \A i \in Len(new.did) + 1..Len(new.plan) : new.plan[i] = "manual"
      <4>1. Len(new.did) = k /\ Len(new.plan) = k + 1 /\ sh.plan[k + 1] = "manual"
        BY <2>7, <2>1, <1>1, <1>3
      <4>2. \A i \in k + 1..k + 1 : i = k + 1
        BY <1>1
      <4> QED BY <4>1, <4>2, <1>t, <1>3
    <3> QED BY <3>1, <2>1, <2>2, <2>3 DEF ShellInv, Going, AtEnd
  <2> QED BY <1>9, <2>5, <2>6, <2>7
<1> QED BY <1>8, <1>9

-----------------------------------------------------------------------------
(* A command starts *)

\* What it has to do: nothing, because it is refused; or steps that end with
\* the operations of its plan.
Ready(todo, rc, plan) ==
    /\ plan \in Seq(Actions)
    /\ \/ todo = <<>> /\ rc # 0
       \/ \E q : Quiet(q) /\ todo = q \o Ops(plan)

LEMMA OpsFacts ==
    ASSUME NEW plan \in Seq(Actions)
    PROVE  \E T : /\ \A x \in T : x.do = "op" /\ x.cfg \in Cfgs
                  /\ Ops(plan) \in Seq(T) /\ Len(Ops(plan)) = Len(plan)
                  /\ \A i \in 1..Len(plan) : Ops(plan)[i].do = "op" /\ Ops(plan)[i].key = plan[i]
<1> DEFINE T == {Step("op", Nothing, x) : x \in Actions}
<1>1. \A x \in T : x.do = "op" /\ x.cfg \in Cfgs
  BY StepFields
<1>2. ASSUME NEW i \in 1..Len(plan)
      PROVE  Step("op", Nothing, plan[i]) \in T
  BY <1>2
<1>3. \A i \in 1..Len(plan) : Step("op", Nothing, plan[i]).do = "op" /\ Step("op", Nothing, plan[i]).key = plan[i]
  BY StepFields
<1>4. Len(plan) \in Nat /\ Ops(plan) = [i \in 1..Len(plan) |-> Step("op", Nothing, plan[i])]
  BY DEF Ops
<1>5. Ops(plan) \in Seq(T) /\ Len(Ops(plan)) = Len(plan)
  <2> HIDE DEF T
  <2> QED BY <1>2, <1>4
<1> HIDE DEF T
<1> QED BY <1>1, <1>3, <1>4, <1>5

LEMMA NewShell ==
    ASSUME NEW cmd, NEW on, NEW todo, NEW rc, NEW plan, NEW raced, Ready(todo, rc, plan),
           NEW new, new = [cmd |-> cmd, on |-> on, todo |-> todo, rc |-> rc, ids |-> NoIds,
                           plan |-> plan, did |-> <<>>, out |-> <<>>, raced |-> raced]
    PROVE  ShellInv(new)
<1>2. /\ new = [cmd |-> new.cmd, on |-> new.on, todo |-> new.todo, rc |-> new.rc, ids |-> new.ids,
                plan |-> new.plan, did |-> new.did, out |-> new.out, raced |-> new.raced]
      /\ new.todo = todo /\ new.rc = rc /\ new.plan = plan /\ new.did = <<>> /\ new.out = <<>>
  <2> PICK ids, none : ids = NoIds /\ none = <<>>
    OBVIOUS
  <2>1. new = [cmd |-> cmd, on |-> on, todo |-> todo, rc |-> rc, ids |-> ids,
               plan |-> plan, did |-> none, out |-> none, raced |-> raced]
    OBVIOUS
  <2>2. /\ new = [cmd |-> new.cmd, on |-> new.on, todo |-> new.todo, rc |-> new.rc, ids |-> new.ids,
                  plan |-> new.plan, did |-> new.did, out |-> new.out, raced |-> new.raced]
        /\ new.todo = todo /\ new.rc = rc /\ new.plan = plan /\ new.did = none /\ new.out = none
    BY <2>1, NineFields
  <2> QED BY <2>2
<1>3. plan \in Seq(Actions) /\ Len(plan) \in Nat
  BY DEF Ready
<1>4. InOrder(new)
  BY <1>2, <1>3 DEF InOrder
<1>s. (\E T : (\A x \in T : x.cfg \in Cfgs) /\ todo \in Seq(T)) => ShellShape(new)
  <2>1. <<>> \in Seq(Nat) /\ <<>> \in Seq(Statuses)
    OBVIOUS
  <2>2. new.did \in Seq(Nat) /\ new.out \in Seq(Statuses)
    BY <2>1, <1>2
  <2>3. new.plan \in Seq(Actions) /\ new.todo = todo
    BY <1>2, <1>3
  <2> QED BY <2>2, <2>3, <1>2 DEF ShellShape
<1>5. CASE todo = <<>> /\ rc # 0
  <2>1. (\A x \in {} : x.cfg \in Cfgs) /\ <<>> \in Seq({})
    OBVIOUS
  <2>2. ShellShape(new)
    BY <1>s, <1>5, <2>1
  <2>3. Going(new) /\ AtEnd(new)
    BY <1>2, <1>5 DEF Going, AtEnd
  <2> QED BY <1>4, <2>2, <2>3 DEF ShellInv
<1>6. CASE \E q : Quiet(q) /\ todo = q \o Ops(plan)
  <2>1. PICK q : Quiet(q) /\ todo = q \o Ops(plan)
    BY <1>6
  <2>2. PICK S : NoOps(S) /\ q \in Seq(S)
    BY <2>1 DEF Quiet
  <2>3. PICK T : /\ \A x \in T : x.do = "op" /\ x.cfg \in Cfgs
                 /\ Ops(plan) \in Seq(T) /\ Len(Ops(plan)) = Len(plan)
                 /\ \A i \in 1..Len(plan) : Ops(plan)[i].do = "op" /\ Ops(plan)[i].key = plan[i]
    BY <1>3, OpsFacts
  <2> PICK ops : ops = Ops(plan)
    OBVIOUS
  <2>4. q \in Seq(S \cup T) /\ ops \in Seq(S \cup T)
    BY <2>2, <2>3
  <2>5. /\ todo \in Seq(S \cup T) /\ Len(todo) = Len(q) + Len(plan) /\ Len(q) \in Nat
        /\ \A i \in 1..Len(q) : todo[i] = q[i]
        /\ \A i \in Len(q) + 1..Len(q) + Len(plan) : todo[i] = ops[i - Len(q)]
    <3>1. todo = q \o ops /\ Len(ops) = Len(plan)
      BY <2>1, <2>3
    <3> PICK T2 : T2 = S \cup T
      OBVIOUS
    <3>2. q \in Seq(T2) /\ ops \in Seq(T2)
      BY <2>4
    <3>3. /\ todo \in Seq(T2) /\ Len(todo) = Len(q) + Len(ops)
          /\ \A i \in 1..Len(q) : todo[i] = q[i]
          /\ \A i \in Len(q) + 1..Len(q) + Len(ops) : todo[i] = ops[i - Len(q)]
      <4>1. /\ todo \in Seq(T2) /\ Len(todo) = Len(q) + Len(ops)
            /\ \A i \in 1..Len(q) + Len(ops) :
                  todo[i] = IF i <= Len(q) THEN q[i] ELSE ops[i - Len(q)]
        BY <3>1, <3>2, ConcatProperties
      <4>2. Len(q) \in Nat /\ Len(ops) \in Nat
        BY <3>2
      <4>3. /\ \A i \in 1..Len(q) : i \in 1..Len(q) + Len(ops) /\ i <= Len(q)
            /\ \A i \in Len(q) + 1..Len(q) + Len(ops) : i \in 1..Len(q) + Len(ops) /\ ~(i <= Len(q))
        BY <4>2
      <4> QED BY <4>1, <4>3
    <3>4. Len(q) \in Nat
      BY <3>2
    <3> QED BY <3>1, <3>3, <3>4
  <2>6. \A x \in S \cup T : x.cfg \in Cfgs
    BY <2>2, <2>3 DEF NoOps
  <2>7. ShellShape(new)
    BY <1>s, <2>5, <2>6
  <2>8. Remaining(new)
    <3>1. Len(new.out) = 0 /\ Len(new.plan) = Len(plan) /\ Len(new.todo) = Len(q) + Len(plan)
      BY <1>2, <2>5
    <3>2. ASSUME NEW i \in 1..Len(q) + Len(plan), i <= Len(q) PROVE todo[i].do # "op"
      <4>1. i \in 1..Len(q)
        BY <3>2, <1>3, <2>5
      <4>2. q[i] \in S
        BY <4>1, <2>2
      <4> QED BY <4>1, <4>2, <2>2, <2>5 DEF NoOps
    <3>3. ASSUME NEW i \in 1..Len(q) + Len(plan), ~(i <= Len(q))
          PROVE  todo[i].do = "op" /\ todo[i].key = plan[i - Len(q)]
      <4>1. i \in Len(q) + 1..Len(q) + Len(plan) /\ i - Len(q) \in 1..Len(plan)
        BY <3>3, <1>3, <2>5
      <4> QED BY <4>1, <2>3, <2>5
    <3>4. /\ Len(plan) - 0 \in 0..Len(q) + Len(plan)
          /\ (Len(q) + Len(plan)) - (Len(plan) - 0) = Len(q)
          /\ \A i \in 1..Len(q) + Len(plan) : (Len(plan) - (Len(q) + Len(plan))) + i = i - Len(q)
      BY <1>3, <2>5
    <3> PICK a, m, w : a = Len(plan) /\ m = Len(q) + Len(plan) /\ w = Len(q)
      OBVIOUS
    <3>5. /\ a - 0 \in 0..m
          /\ \A i \in 1..m : IF i <= m - (a - 0) THEN todo[i].do # "op"
                ELSE todo[i].do = "op" /\ todo[i].key = plan[(a - m) + i]
      BY <3>2, <3>3, <3>4
    <3> QED BY <3>1, <3>5, <1>2 DEF Remaining
  <2>9. Going(new)
    BY <2>8, <1>2 DEF Going
  <2>10. AtEnd(new)
    <3>1. todo = <<>> => Len(plan) = 0
      BY <2>5, <1>3
    <3> QED BY <3>1, <1>2 DEF AtEnd
  <2> QED BY <1>4, <2>7, <2>9, <2>10 DEF ShellInv
<1> QED BY <1>5, <1>6 DEF Ready

LEMMA CommandFields ==
    ASSUME NEW ids, NEW none, NEW cmd, NEW on, NEW todo, NEW idle, NEW no, NEW x,
           idle = [cmd |-> "none", on |-> none, todo |-> none, rc |-> 0, ids |-> ids,
                   plan |-> none, did |-> none, out |-> none, raced |-> no],
           x = [idle EXCEPT !.cmd = cmd, !.on = on, !.todo = todo]
    PROVE  x = [cmd |-> cmd, on |-> on, todo |-> todo, rc |-> 0, ids |-> ids,
                plan |-> none, did |-> none, out |-> none, raced |-> no]
OBVIOUS

LEMMA PlanFields ==
    ASSUME NEW ids, NEW none, NEW cmd, NEW on, NEW todo, NEW rc, NEW plan, NEW no, NEW x, NEW y,
           x = [cmd |-> cmd, on |-> on, todo |-> todo, rc |-> 0, ids |-> ids,
                plan |-> none, did |-> none, out |-> none, raced |-> no],
           y = [x EXCEPT !.rc = rc, !.plan = plan]
    PROVE  y = [cmd |-> cmd, on |-> on, todo |-> todo, rc |-> rc, ids |-> ids,
                plan |-> plan, did |-> none, out |-> none, raced |-> no]
OBVIOUS

LEMMA RacedField ==
    ASSUME NEW cmd, NEW on, NEW todo, NEW rc, NEW ids, NEW plan, NEW none, NEW no, NEW raced, NEW x,
           NEW y,
           x = [cmd |-> cmd, on |-> on, todo |-> todo, rc |-> rc, ids |-> ids,
                plan |-> plan, did |-> none, out |-> none, raced |-> no],
           y = [x EXCEPT !.raced = raced]
    PROVE  y = [cmd |-> cmd, on |-> on, todo |-> todo, rc |-> rc, ids |-> ids,
                plan |-> plan, did |-> none, out |-> none, raced |-> raced]
OBVIOUS

LEMMA StartKeeps ==
    ASSUME PlanInv, NEW s \in Shells, NEW cmd, NEW on, NEW todo, NEW rc, NEW plan,
           Ready(todo, rc, plan), StartPlan(s, cmd, on, todo, rc, plan)
    PROVE  PlanInv'
<1> DEFINE others == {t \in Shells \ {s} : shells[t].on = on /\ shells[t].todo # <<>>}
           raced == others # {} /\ todo # <<>>
           new == [cmd |-> cmd, on |-> on, todo |-> todo, rc |-> rc, ids |-> NoIds,
                   plan |-> plan, did |-> <<>>, out |-> <<>>, raced |-> raced]
<1>1. shells' = [t \in Shells |->
             CASE t = s -> new
               [] t \in others /\ todo # <<>> -> [shells[t] EXCEPT !.raced = TRUE]
               [] OTHER -> shells[t]]
  <2>1. new = [Idle EXCEPT !.cmd = cmd, !.on = on, !.todo = todo, !.rc = rc,
                           !.plan = plan, !.raced = raced]
    <3>1. PICK ids, none, idle, no, late :
                 ids = NoIds /\ none = <<>> /\ idle = Idle /\ no = FALSE /\ late = raced
      OBVIOUS
    <3> HIDE DEF raced
    <3>2. PICK x : x = [idle EXCEPT !.cmd = cmd, !.on = on, !.todo = todo]
      OBVIOUS
    <3>3. PICK y : y = [x EXCEPT !.rc = rc, !.plan = plan]
      OBVIOUS
    <3>4. PICK z : z = [y EXCEPT !.raced = late]
      OBVIOUS
    <3>5. idle = [cmd |-> "none", on |-> none, todo |-> none, rc |-> 0, ids |-> ids,
                  plan |-> none, did |-> none, out |-> none, raced |-> no]
      BY <3>1 DEF Idle, Nothing
    <3>6. x = [cmd |-> cmd, on |-> on, todo |-> todo, rc |-> 0, ids |-> ids,
               plan |-> none, did |-> none, out |-> none, raced |-> no]
      BY <3>2, <3>5, CommandFields
    <3>7. y = [cmd |-> cmd, on |-> on, todo |-> todo, rc |-> rc, ids |-> ids,
               plan |-> plan, did |-> none, out |-> none, raced |-> no]
      BY <3>3, <3>6, PlanFields
    <3>8. z = [cmd |-> cmd, on |-> on, todo |-> todo, rc |-> rc, ids |-> ids,
               plan |-> plan, did |-> none, out |-> none, raced |-> late]
      BY <3>4, <3>7, RacedField
    <3>9. z = [Idle EXCEPT !.cmd = cmd, !.on = on, !.todo = todo, !.rc = rc,
                           !.plan = plan, !.raced = raced]
      BY <3>1, <3>2, <3>3, <3>4
    <3> QED BY <3>1, <3>8, <3>9
  <2> HIDE DEF new
  <2> QED BY <2>1 DEF StartPlan
<1>2. ShellInv(new)
  <2> HIDE DEF raced
  <2> QED BY NewShell
<1>3. ASSUME NEW t \in Shells PROVE ShellInv([shells[t] EXCEPT !.raced = TRUE])
  <2> PICK sh, alt : sh = shells[t] /\ alt = [sh EXCEPT !.raced = TRUE]
    OBVIOUS
  <2>1. ShellInv(sh)
    BY DEF PlanInv
  <2>2. sh = [cmd |-> sh.cmd, on |-> sh.on, todo |-> sh.todo, rc |-> sh.rc, ids |-> sh.ids,
             plan |-> sh.plan, did |-> sh.did, out |-> sh.out, raced |-> sh.raced]
    BY <2>1 DEF ShellInv, ShellShape
  <2>3. alt = [cmd |-> sh.cmd, on |-> sh.on, todo |-> sh.todo, rc |-> sh.rc, ids |-> sh.ids,
             plan |-> sh.plan, did |-> sh.did, out |-> sh.out, raced |-> TRUE]
    BY <2>2
  <2>4. SamePlan(sh, alt) /\ alt.todo = sh.todo /\ alt.rc = sh.rc
    <3> PICK c, o, d, r, i, p, e, u :
               c = sh.cmd /\ o = sh.on /\ d = sh.todo /\ r = sh.rc /\ i = sh.ids /\ p = sh.plan
               /\ e = sh.did /\ u = sh.out
      OBVIOUS
    <3>1. alt = [cmd |-> c, on |-> o, todo |-> d, rc |-> r, ids |-> i, plan |-> p, did |-> e,
                 out |-> u, raced |-> TRUE]
      BY <2>3
    <3>2. /\ alt = [cmd |-> alt.cmd, on |-> alt.on, todo |-> alt.todo, rc |-> alt.rc, ids |-> alt.ids,
                    plan |-> alt.plan, did |-> alt.did, out |-> alt.out, raced |-> alt.raced]
          /\ alt.todo = d /\ alt.rc = r /\ alt.plan = p /\ alt.did = e /\ alt.out = u
      BY <3>1, NineFields
    <3> QED BY <3>2 DEF SamePlan
  <2>5. ShellInv(alt)
    BY <2>1, <2>4, AlikeShell
  <2> QED BY <2>5
<1>4. ASSUME NEW t \in Shells PROVE ShellInv(shells'[t])
  <2>1. CASE t = s
    BY <1>1, <1>2, <2>1
  <2>2. CASE t # s /\ shells'[t] = [shells[t] EXCEPT !.raced = TRUE]
    BY <1>3, <2>2
  <2>3. CASE t # s /\ shells'[t] = shells[t]
    BY <2>3 DEF PlanInv
  <2>4. t # s => shells'[t] \in {[shells[t] EXCEPT !.raced = TRUE], shells[t]}
    <3> HIDE DEF new, others
    <3> QED BY <1>1
  <2> QED BY <2>1, <2>2, <2>3, <2>4
<1>5. shells' = [t \in Shells |-> shells'[t]]
  <2> DEFINE then(t) == CASE t = s -> new
                          [] t \in others /\ todo # <<>> -> [shells[t] EXCEPT !.raced = TRUE]
                          [] OTHER -> shells[t]
  <2>1. shells' = [t \in Shells |-> then(t)]
    BY <1>1
  <2> HIDE DEF then
  <2> QED BY <2>1
<1>6. store' = store
  BY DEF StartPlan
<1> QED BY <1>4, <1>5, <1>6 DEF PlanInv

\* A command without a plan.
LEMMA StartQuiet ==
    ASSUME PlanInv, NEW s \in Shells, NEW cmd, NEW on, NEW todo, NEW rc, Quiet(todo),
           Start(s, cmd, on, todo, rc)
    PROVE  PlanInv'
<1>1. PICK S : NoOps(S) /\ todo \in Seq(S)
  BY DEF Quiet
<1>2. todo \o <<>> = todo
  BY <1>1, ConcatEmptySeq
<1>3. Ops(<<>>) = <<>>
  BY DEF Ops
<1>e. <<>> \in Seq(Actions)
  OBVIOUS
<1>4. Ready(todo, rc, <<>>)
  <2> PICK plan : plan = <<>>
    OBVIOUS
  <2>1. plan \in Seq(Actions) /\ todo = todo \o Ops(plan)
    BY <1>2, <1>3, <1>e
  <2>2. \E q : Quiet(q) /\ todo = q \o Ops(plan)
    BY <2>1
  <2>3. Ready(todo, rc, plan)
    BY <2>1, <2>2 DEF Ready
  <2> QED BY <2>3
<1>5. StartPlan(s, cmd, on, todo, rc, <<>>)
  BY DEF Start
<1> QED BY <1>4, <1>5, StartKeeps

-----------------------------------------------------------------------------
(* A command goes on *)

\* One shell changes, and writes configurations only.
LEMMA WithShell ==
    ASSUME PlanInv, NEW s \in Shells, NEW new, ShellInv(new), shells' = [shells EXCEPT ![s] = new],
           store' \in [Barrels -> Cfgs]
    PROVE  PlanInv'
<1>1. shells = [t \in Shells |-> shells[t]] /\ \A t \in Shells : ShellInv(shells[t])
  BY DEF PlanInv
<1>2. shells' = [t \in Shells |-> IF t = s THEN new ELSE shells[t]]
  BY <1>1
<1>3. ASSUME NEW t \in Shells PROVE ShellInv(shells'[t])
  <2>1. CASE t = s
    BY <2>1, <1>2
  <2>2. CASE t # s
    BY <2>2, <1>1, <1>2
  <2> QED BY <2>1, <2>2
<1>4. shells' = [t \in Shells |-> shells'[t]]
  BY <1>2
<1> QED BY <1>3, <1>4 DEF PlanInv

\* What a step may change of a shell.
LEMMA Changed ==
    ASSUME NEW sh, ShellShape(sh), NEW todo, NEW rc, NEW ids, NEW new,
           new = [cmd |-> sh.cmd, on |-> sh.on, todo |-> todo, rc |-> rc, ids |-> ids,
                  plan |-> sh.plan, did |-> sh.did, out |-> sh.out, raced |-> sh.raced]
    PROVE  SamePlan(sh, new) /\ new.todo = todo /\ new.rc = rc
<1>1. PICK c, o, p, e, u, f :
             c = sh.cmd /\ o = sh.on /\ p = sh.plan /\ e = sh.did /\ u = sh.out /\ f = sh.raced
  OBVIOUS
<1>2. new = [cmd |-> c, on |-> o, todo |-> todo, rc |-> rc, ids |-> ids, plan |-> p, did |-> e,
             out |-> u, raced |-> f]
  BY <1>1
<1>3. /\ new = [cmd |-> new.cmd, on |-> new.on, todo |-> new.todo, rc |-> new.rc, ids |-> new.ids,
                plan |-> new.plan, did |-> new.did, out |-> new.out, raced |-> new.raced]
      /\ new.todo = todo /\ new.rc = rc /\ new.plan = p /\ new.did = e /\ new.out = u
  BY <1>2, NineFields
<1> QED BY <1>1, <1>3 DEF SamePlan

\* A step is taken, with or without a fresh copy of the identity map.
LEMMA GoesKeeps ==
    ASSUME PlanInv, NEW s \in Shells, NEW do, do # "op", At(s, do), NEW ids, NEW new,
           \/ new = [shells[s] EXCEPT !.todo = Tail(@)]
           \/ new = [[shells[s] EXCEPT !.todo = Tail(@)] EXCEPT !.ids = ids],
           shells' = [shells EXCEPT ![s] = new], store' \in [Barrels -> Cfgs]
    PROVE  PlanInv'
<1>1. PICK sh : sh = shells[s]
  OBVIOUS
<1>2. ShellInv(sh) /\ sh.todo # <<>> /\ Head(sh.todo).do # "op"
  BY <1>1 DEF PlanInv, At
<1>3. sh = [cmd |-> sh.cmd, on |-> sh.on, todo |-> sh.todo, rc |-> sh.rc, ids |-> sh.ids,
            plan |-> sh.plan, did |-> sh.did, out |-> sh.out, raced |-> sh.raced]
  BY <1>2 DEF ShellInv, ShellShape
<1>4. PICK tail, goes : tail = Tail(sh.todo) /\ goes = [sh EXCEPT !.todo = tail]
  OBVIOUS
<1>5. goes = [cmd |-> sh.cmd, on |-> sh.on, todo |-> tail, rc |-> sh.rc, ids |-> sh.ids,
              plan |-> sh.plan, did |-> sh.did, out |-> sh.out, raced |-> sh.raced]
  BY <1>3, <1>4
<1>6. CASE new = [shells[s] EXCEPT !.todo = Tail(@)]
  <2>1. new = goes
    BY <1>1, <1>4, <1>6
  <2>2. SamePlan(sh, new) /\ new.todo = tail /\ new.rc = sh.rc
    BY <1>2, <1>5, <2>1, Changed DEF ShellInv
  <2>3. ShellInv(new)
    BY <1>2, <1>4, <2>2, StepDone
  <2> QED BY <2>3, WithShell
<1>7. CASE new = [[shells[s] EXCEPT !.todo = Tail(@)] EXCEPT !.ids = ids]
  <2>1. new = [goes EXCEPT !.ids = ids]
    BY <1>1, <1>4, <1>7
  <2>2. new = [cmd |-> sh.cmd, on |-> sh.on, todo |-> tail, rc |-> sh.rc, ids |-> ids,
               plan |-> sh.plan, did |-> sh.did, out |-> sh.out, raced |-> sh.raced]
    BY <2>1, <1>5
  <2>3. SamePlan(sh, new) /\ new.todo = tail /\ new.rc = sh.rc
    BY <1>2, <2>2, Changed DEF ShellInv
  <2>4. ShellInv(new)
    BY <1>2, <1>4, <2>3, StepDone
  <2> QED BY <2>4, WithShell
<1> QED BY <1>6, <1>7

LEMMA StepTaken ==
    ASSUME PlanInv, NEW s \in Shells, NEW do, do # "op", At(s, do), shells' = Goes(s),
           store' \in [Barrels -> Cfgs]
    PROVE  PlanInv'
<1>1. PICK new : new = [shells[s] EXCEPT !.todo = Tail(@)]
  OBVIOUS
<1>2. shells' = [shells EXCEPT ![s] = new]
  BY <1>1 DEF Goes
<1> QED BY <1>1, <1>2, GoesKeeps

LEMMA StepTakenIds ==
    ASSUME PlanInv, NEW s \in Shells, NEW do, do # "op", At(s, do), NEW ids,
           shells' = [Goes(s) EXCEPT ![s].ids = ids], store' = store
    PROVE  PlanInv'
<1>1. PICK goes : goes = [shells[s] EXCEPT !.todo = Tail(@)]
  OBVIOUS
<1>2. PICK new : new = [goes EXCEPT !.ids = ids]
  OBVIOUS
<1>3. shells = [t \in Shells |-> shells[t]] /\ store \in [Barrels -> Cfgs]
  BY DEF PlanInv
<1>4. Goes(s) = [t \in Shells |-> IF t = s THEN goes ELSE shells[t]]
  BY <1>1, <1>3 DEF Goes
<1>5. shells' = [t \in Shells |-> IF t = s THEN new ELSE shells[t]]
  BY <1>2, <1>4
<1>6. shells' = [shells EXCEPT ![s] = new]
  BY <1>3, <1>5
<1>7. new = [[shells[s] EXCEPT !.todo = Tail(@)] EXCEPT !.ids = ids]
  BY <1>1, <1>2
<1> QED BY <1>3, <1>6, <1>7, GoesKeeps

-----------------------------------------------------------------------------
(* The steps *)

LEMMA CustomsKeep ==
    ASSUME PlanInv, NEW s \in Shells, CustomsSteps(s) PROVE PlanInv'
<1>0. store \in [Barrels -> Cfgs]
  BY DEF PlanInv
<1>1. CASE WriteEntry(s)
  <2>1. At(s, "write_entry") /\ shells' = Goes(s) /\ store' = store
    BY <1>1 DEF WriteEntry
  <2> QED BY <2>1, <1>0, StepTaken
<1>2. CASE RemoveEntry(s)
  <2>1. At(s, "remove_entry") /\ shells' = Goes(s) /\ store' = store
    BY <1>2 DEF RemoveEntry
  <2> QED BY <2>1, <1>0, StepTaken
<1>3. CASE MakeIcon(s)
  <2>1. At(s, "icon") /\ shells' = Goes(s) /\ store' = store
    BY <1>3 DEF MakeIcon
  <2> QED BY <2>1, <1>0, StepTaken
<1>4. CASE RemoveIcon(s)
  <2>1. At(s, "remove_icon") /\ shells' = Goes(s) /\ store' = store
    BY <1>4 DEF RemoveIcon
  <2> QED BY <2>1, <1>0, StepTaken
<1>5. CASE LoadIdentity(s)
  <2>1. At(s, "load_identity") /\ shells' = [Goes(s) EXCEPT ![s].ids = identity] /\ store' = store
    BY <1>5 DEF LoadIdentity
  <2> QED BY <2>1, StepTakenIds
<1>6. CASE SaveIdentity(s)
  <2>1. /\ At(s, "register") \/ At(s, "unregister")
        /\ shells' = [Goes(s) EXCEPT ![s].ids = NoIds] /\ store' = store
    BY <1>6 DEF SaveIdentity
  <2>2. CASE At(s, "register")
    BY <2>1, <2>2, StepTakenIds
  <2>3. CASE At(s, "unregister")
    BY <2>1, <2>3, StepTakenIds
  <2> QED BY <2>1, <2>2, <2>3
<1>7. CASE RefreshDb(s)
  <2>1. At(s, "refresh") /\ shells' = Goes(s) /\ store' = store
    BY <1>7 DEF RefreshDb
  <2> QED BY <2>1, <1>0, StepTaken
<1>8. CASE Kill(s)
  <2>1. PICK new : new = [Idle EXCEPT !.cmd = "killed", !.rc = 130]
    OBVIOUS
  <2>2. shells' = [shells EXCEPT ![s] = new] /\ store' = store
    BY <1>8, <2>1 DEF Kill
  <2>3. new = [cmd |-> "killed", on |-> Nothing, todo |-> <<>>, rc |-> 130, ids |-> NoIds,
               plan |-> <<>>, did |-> <<>>, out |-> <<>>, raced |-> FALSE]
    BY <2>1 DEF Idle
  <2>4. ShellInv(new)
    <3>1. PICK cmd, on, none, rc, raced :
               cmd = "killed" /\ on = Nothing /\ none = <<>> /\ rc = 130 /\ raced = FALSE
      OBVIOUS
    <3>2. none \in Seq(Actions) /\ rc # 0 /\ none = <<>>
      BY <3>1
    <3>3. Ready(none, rc, none)
      BY <3>2 DEF Ready
    <3>4. new = [cmd |-> cmd, on |-> on, todo |-> none, rc |-> rc, ids |-> NoIds,
                 plan |-> none, did |-> <<>>, out |-> <<>>, raced |-> raced]
      BY <2>3, <3>1
    <3> QED BY <3>3, <3>4, NewShell
  <2> QED BY <2>2, <2>4, <1>0, WithShell
<1> QED BY <1>1, <1>2, <1>3, <1>4, <1>5, <1>6, <1>7, <1>8 DEF CustomsSteps

\* A configuration is written, or is that of no barrel.
LEMMA BarrelStepsKeep ==
    ASSUME PlanInv, NEW s \in Shells, SaveBarrel(s) \/ DeleteBarrel(s) PROVE PlanInv'
<1>0. store \in [Barrels -> Cfgs] /\ NoBarrel \in Cfgs
  BY DEF PlanInv, NoBarrel, Cfgs
<1>1. CASE SaveBarrel(s)
  <2>1. /\ At(s, "save") /\ shells' = Goes(s)
        /\ store' = [store EXCEPT ![shells[s].on] = Head(shells[s].todo).cfg]
    BY <1>1 DEF SaveBarrel
  <2>2. Head(shells[s].todo).cfg \in Cfgs
    <3>1. ShellShape(shells[s]) /\ shells[s].todo # <<>>
      BY <2>1 DEF PlanInv, ShellInv, At
    <3>2. PICK S : (\A x \in S : x.cfg \in Cfgs) /\ shells[s].todo \in Seq(S)
      BY <3>1 DEF ShellShape
    <3>3. Head(shells[s].todo) \in S
      BY <3>1, <3>2, HeadTailProperties
    <3> QED BY <3>2, <3>3
  <2>3. store' \in [Barrels -> Cfgs]
    BY <2>1, <2>2, <1>0
  <2> QED BY <2>1, <2>3, StepTaken
<1>2. CASE DeleteBarrel(s)
  <2>1. /\ At(s, "delete") /\ shells' = Goes(s)
        /\ store' = [store EXCEPT ![shells[s].on] = NoBarrel]
    BY <1>2 DEF DeleteBarrel
  <2>2. store' \in [Barrels -> Cfgs]
    BY <2>1, <1>0
  <2> QED BY <2>1, <2>2, StepTaken
<1> QED BY <1>1, <1>2

LEMMA SpawnKeeps == ASSUME PlanInv, NEW s \in Shells, Spawn(s) PROVE PlanInv'
<1>0. store \in [Barrels -> Cfgs]
  BY DEF PlanInv
<1>1. At(s, "spawn") /\ store' = store
  BY DEF Spawn
<1>2. CASE shells' = Goes(s)
  BY <1>0, <1>1, <1>2, StepTaken
<1>3. CASE shells' = [shells EXCEPT ![s].todo = <<>>, ![s].rc = 1]
  <2>1. PICK sh, none : sh = shells[s] /\ none = <<>>
    OBVIOUS
  <2>2. PICK new : new = [sh EXCEPT !.todo = none, !.rc = 1]
    OBVIOUS
  <2>3. shells = [t \in Shells |-> shells[t]] /\ ShellInv(sh)
    BY <2>1 DEF PlanInv
  <2>4. shells' = [shells EXCEPT ![s] = new]
    BY <1>3, <2>1, <2>2, <2>3
  <2>5. sh = [cmd |-> sh.cmd, on |-> sh.on, todo |-> sh.todo, rc |-> sh.rc, ids |-> sh.ids,
              plan |-> sh.plan, did |-> sh.did, out |-> sh.out, raced |-> sh.raced]
    BY <2>3 DEF ShellInv, ShellShape
  <2>6. new = [cmd |-> sh.cmd, on |-> sh.on, todo |-> none, rc |-> 1, ids |-> sh.ids,
               plan |-> sh.plan, did |-> sh.did, out |-> sh.out, raced |-> sh.raced]
    BY <2>2, <2>5
  <2>7. SamePlan(sh, new) /\ new.todo = none /\ new.rc = 1
    BY <2>3, <2>6, Changed DEF ShellInv
  <2>8. ShellInv(new)
    BY <2>1, <2>3, <2>7, FailedShell
  <2> QED BY <2>4, <2>8, <1>0, <1>1, WithShell
<1> QED BY <1>2, <1>3 DEF Spawn

LEMMA OperationKeeps ==
    ASSUME PlanInv, NEW s \in Shells, NEW status \in {"ok", "failed", "manual"}, ExecuteOp(s, status)
    PROVE  PlanInv'
<1>0. store \in [Barrels -> Cfgs] /\ store' = store
  BY DEF PlanInv, ExecuteOp
<1>1. PICK sh : sh = shells[s]
  OBVIOUS
<1>2. /\ ShellInv(sh) /\ sh.todo # <<>> /\ Head(sh.todo).do = "op"
      /\ status = "manual" <=> Head(sh.todo).key = "manual"
  BY <1>1 DEF PlanInv, ExecuteOp, At, Key
<1>3. PICK new : new = OpNext(sh, status)
  OBVIOUS
<1>4. shells' = [shells EXCEPT ![s] = new]
  BY <1>1, <1>3 DEF ExecuteOp, OpNext, OpRest, OpSkipped, OpOut, OpDid, OpRc
<1>5. ShellInv(new)
  BY <1>2, <1>3, OpStep
<1> QED BY <1>0, <1>4, <1>5, WithShell

-----------------------------------------------------------------------------
(* The commands *)

LEMMA LookKeeps ==
    ASSUME PlanInv, NEW s \in Shells, NEW cmd, NEW on, NEW rc, Start(s, cmd, on, <<>>, rc)
    PROVE  PlanInv'
BY QuietNothing, StartQuiet

\* A command is refused, or starts with steps that are not operations.
LEMMA StartOr ==
    ASSUME PlanInv, NEW s \in Shells, NEW cmd, NEW on, NEW todo, NEW rc, NEW bad, Quiet(todo),
           Start(s, cmd, on, todo, rc) \/ Start(s, cmd, on, <<>>, bad)
    PROVE  PlanInv'
BY LookKeeps, StartQuiet

LEMMA BarrelCommandsKeep ==
    ASSUME PlanInv, NEW s \in Shells, NEW b \in Barrels,
           \/ Create(s, b) \/ RemoveBarrel(s, b) \/ Winetricks(s, b)
           \/ Show(s, b) \/ Maintain(s, b) \/ ExportRecipe(s, b)
    PROVE  PlanInv'
<1>0. store[b] \in Cfgs /\ store[b].programs \in SUBSET Programs
  BY DEF PlanInv, Cfgs
<1>1. CASE Create(s, b)
  <2>1. [NoBarrel EXCEPT !.saved = TRUE] \in Cfgs
    BY DEF NoBarrel, Cfgs
  <2>2. PICK todo : todo = Save([NoBarrel EXCEPT !.saved = TRUE])
    OBVIOUS
  <2>3. Quiet(todo)
    BY <2>1, <2>2, QuietSave
  <2>4. Start(s, "create", b, todo, 0)
    BY <1>1, <2>2 DEF Create
  <2> QED BY <2>3, <2>4, StartQuiet
<1>2. CASE RemoveBarrel(s, b)
  <2>1. PICK off, refresh, delete, all :
             /\ off = ForEach(Unwire, b, store[b].programs) /\ refresh = RefreshIf(store[b].programs)
             /\ delete = Only("delete") /\ all = (off \o refresh) \o delete
    OBVIOUS
  <2>2. Quiet(off) /\ Quiet(refresh) /\ Quiet(delete)
    BY <2>1, <1>0, QuietBatch, QuietRefresh, QuietOnly
  <2>3. Quiet(off \o refresh)
    BY <2>2, QuietBoth
  <2>4. Quiet(all)
    BY <2>1, <2>2, <2>3, QuietBoth
  <2>5. Start(s, "rm", b, all, 0) \/ Start(s, "rm", b, <<>>, 1)
    BY <1>2, <2>1 DEF RemoveBarrel
  <2> QED BY <2>4, <2>5, StartOr
<1>3. CASE Winetricks(s, b)
  <2>1. [store[b] EXCEPT !.verbs = TRUE] \in Cfgs
    BY <1>0 DEF Cfgs
  <2>2. PICK spawn, save, all :
             /\ spawn = Only("spawn") /\ save = Save([store[b] EXCEPT !.verbs = TRUE])
             /\ all = spawn \o save
    OBVIOUS
  <2>3. Quiet(spawn) /\ Quiet(save)
    BY <2>1, <2>2, QuietOnly, QuietSave
  <2>4. Quiet(all)
    BY <2>2, <2>3, QuietBoth
  <2>5. Start(s, "winetricks", b, all, 0) \/ Start(s, "winetricks", b, <<>>, 1)
    BY <1>3, <2>2 DEF Winetricks
  <2> QED BY <2>4, <2>5, StartOr
<1>4. CASE Show(s, b) \/ Maintain(s, b) \/ ExportRecipe(s, b)
  BY <1>4, LookKeeps DEF Show, Maintain, ExportRecipe
<1> QED BY <1>1, <1>2, <1>3, <1>4

LEMMA ProgramCommandsKeep ==
    ASSUME PlanInv, NEW s \in Shells, NEW b \in Barrels,
           \/ \E p \in Programs : Register(s, b, p) \/ Run(s, b, p)
           \/ \E ps \in SUBSET Programs : Scan(s, b, ps)
    PROVE  PlanInv'
<1>0. \A ps \in SUBSET Programs : Upsert(store[b], ps) \in Cfgs
  BY DEF PlanInv, Cfgs, Upsert
<1>1. ASSUME NEW p \in Programs, Register(s, b, p) PROVE PlanInv'
  <2>1. PICK save, wire, refresh, all :
             /\ save = Save(Upsert(store[b], {p})) /\ wire = Launcher(b, p)
             /\ refresh = Only("refresh") /\ all = (save \o wire) \o refresh
    OBVIOUS
  <2>2. Quiet(save) /\ Quiet(refresh)
    BY <2>1, <1>0, QuietSave, QuietOnly
  <2>3. Quiet(wire)
    BY <2>1, LauncherType, LauncherStepsQuiet DEF Quiet
  <2>4. Quiet(save \o wire)
    BY <2>2, <2>3, QuietBoth
  <2>5. Quiet(all)
    BY <2>1, <2>2, <2>4, QuietBoth
  <2>6. Start(s, "register", b, all, 0) \/ Start(s, "register", b, <<>>, 1)
    BY <1>1, <2>1 DEF Register
  <2> QED BY <2>5, <2>6, StartOr
<1>2. ASSUME NEW p \in Programs, Run(s, b, p) PROVE PlanInv'
  BY <1>2, LookKeeps DEF Run
<1>3. ASSUME NEW ps \in SUBSET Programs, Scan(s, b, ps) PROVE PlanInv'
  <2>1. PICK wire, save, refresh, all :
             /\ wire = ForEach(Launcher, b, ps) /\ save = Save(Upsert(store[b], ps))
             /\ refresh = RefreshIf(ps) /\ all = (wire \o save) \o refresh
    OBVIOUS
  <2>2. Quiet(wire) /\ Quiet(save) /\ Quiet(refresh)
    BY <2>1, <1>0, QuietBatch, QuietSave, QuietRefresh
  <2>3. Quiet(wire \o save)
    BY <2>2, QuietBoth
  <2>4. Quiet(all)
    BY <2>1, <2>2, <2>3, QuietBoth
  <2>5. Start(s, "scan", b, all, 0) \/ Start(s, "scan", b, <<>>, 1)
    BY <1>3, <2>1 DEF Scan
  <2> QED BY <2>4, <2>5, StartOr
<1> QED BY <1>1, <1>2, <1>3

LEMMA OpenKeeps == ASSUME PlanInv, NEW s \in Shells, Open(s) PROVE PlanInv'
BY LookKeeps DEF Open

LEMMA PlanType ==
    ASSUME NEW r \in Recipes PROVE Plan(r) \in Seq(Actions)
<1>1. PICK T, S, steps : T = STRING /\ S = Actions /\ steps = r.steps /\ steps \in Seq(T)
  BY RecipesAssumption
<1>2. \A x \in T : PlanStep(x) = "manual" \/ PlanStep(x) = x
  BY DEF PlanStep
<1>3. "manual" \in S /\ T \subseteq S
  BY <1>1 DEF Actions
<1>4. \A x \in T : PlanStep(x) \in S
  BY <1>2, <1>3
<1>5. Len(steps) \in Nat /\ \A i \in 1..Len(steps) : steps[i] \in T
  BY <1>1
<1>6. Plan(r) = [i \in 1..Len(steps) |-> PlanStep(steps[i])]
  BY <1>1 DEF Plan
<1>7. Plan(r) \in Seq(S)
  BY <1>4, <1>5, <1>6
<1> QED BY <1>1, <1>7

\* A plan that is run in an empty prefix, and one after the barrel is made.
LEMMA RecipeCommandsKeep ==
    ASSUME PlanInv, NEW s \in Shells, NEW r \in Recipes, NEW noLint, NEW force,
           \/ LintRecipe(s, r) \/ ShowPlan(s, r) \/ Materialize(s, r, noLint, force)
           \/ \E dry \in BOOLEAN :
                 InstallRecipe(s, r, noLint, force, dry) \/ Install(s, r, noLint, dry)
    PROVE  PlanInv'
<1>0. Quiet(Materialized(r)) /\ Quiet(<<>>) /\ Plan(r) \in Seq(Actions)
  BY QuietMaterialized, QuietNothing, PlanType
<1>1. CASE LintRecipe(s, r) \/ ShowPlan(s, r)
  BY <1>1, LookKeeps DEF LintRecipe, ShowPlan
<1>2. CASE Materialize(s, r, noLint, force)
  <2>1. PICK todo, rc :
             /\ rc = Refusal(r, noLint, force)
             /\ todo = IF rc = 0 THEN Materialized(r) ELSE <<>>
    OBVIOUS
  <2>2. Quiet(todo)
    BY <2>1, <1>0
  <2>3. Start(s, "materialize", r.id, todo, rc)
    BY <1>2, <2>1 DEF Materialize
  <2> QED BY <2>2, <2>3, StartQuiet
<1>3. ASSUME NEW dry \in BOOLEAN, InstallRecipe(s, r, noLint, force, dry) PROVE PlanInv'
  <2>1. PICK rc, plan, todo :
             /\ rc = Refusal(r, noLint, force) /\ plan = IF dry THEN <<>> ELSE Plan(r)
             /\ todo = IF rc = 0 THEN Materialized(r) \o Ops(plan) ELSE <<>>
    OBVIOUS
  <2>2. plan \in Seq(Actions)
    <3>1. <<>> \in Seq(Actions)
      OBVIOUS
    <3>2. CASE dry
      BY <3>1, <3>2, <2>1
    <3>3. CASE ~dry
      BY <3>3, <2>1, <1>0
    <3> QED BY <3>2, <3>3
  <2>3. Ready(todo, rc, plan)
    BY <2>1, <2>2, <1>0 DEF Ready
  <2>4. StartPlan(s, "install-recipe", r.id, todo, rc, plan)
    BY <1>3, <2>1 DEF InstallRecipe
  <2> QED BY <2>3, <2>4, StartKeeps
<1>4. ASSUME NEW dry \in BOOLEAN, Install(s, r, noLint, dry) PROVE PlanInv'
  <2>1. PICK refused, rc, plan, todo :
             /\ refused = (r.flaw = "unreadable" \/ (~noLint /\ LintErrors(r)))
             /\ rc = IF refused THEN 1 ELSE 0
             /\ plan = (IF dry THEN <<>> ELSE Plan(r))
             /\ todo = IF refused THEN <<>> ELSE Ops(plan)
    OBVIOUS
  <2>4. plan \in Seq(Actions)
    <3>1. <<>> \in Seq(Actions)
      OBVIOUS
    <3>2. CASE dry
      BY <3>1, <3>2, <2>1
    <3>3. CASE ~dry
      BY <3>3, <2>1, <1>0
    <3> QED BY <3>2, <3>3
  <2>2. Ready(todo, rc, plan)
    <3>1. <<>> \o Ops(plan) = Ops(plan)
      <4>1. PICK T : Ops(plan) \in Seq(T)
        BY <2>4, OpsFacts
      <4> QED BY <4>1, ConcatEmptySeq
    <3>2. CASE refused
      BY <3>2, <2>1, <2>4 DEF Ready
    <3>3. CASE ~refused
      <4>1. PICK none : none = <<>>
        OBVIOUS
      <4>2. Quiet(none) /\ todo = none \o Ops(plan) /\ plan \in Seq(Actions)
        BY <4>1, <3>1, <3>3, <2>1, <2>4, <1>0
      <4> QED BY <4>2 DEF Ready
    <3> QED BY <3>2, <3>3
  <2>3. StartPlan(s, "install", r.id, todo, rc, plan)
    BY <1>4, <2>1 DEF Install
  <2> QED BY <2>2, <2>3, StartKeeps
<1> QED BY <1>1, <1>2, <1>3, <1>4

LEMMA DrydockKeeps == ASSUME PlanInv, DrydockNext PROVE PlanInv'
<1>1. PICK s \in Shells :
        \/ \E b \in Barrels :
              \/ Create(s, b) \/ RemoveBarrel(s, b) \/ Winetricks(s, b)
              \/ Show(s, b) \/ Maintain(s, b) \/ ExportRecipe(s, b)
              \/ \E p \in Programs : Register(s, b, p) \/ Run(s, b, p)
              \/ \E ps \in SUBSET Programs : Scan(s, b, ps)
        \/ Open(s)
        \/ \E r \in Recipes : LintRecipe(s, r) \/ ShowPlan(s, r)
        \/ \E r \in Recipes, noLint, force \in BOOLEAN :
              \/ Materialize(s, r, noLint, force)
              \/ \E dry \in BOOLEAN :
                    InstallRecipe(s, r, noLint, force, dry) \/ Install(s, r, noLint, dry)
        \/ SaveBarrel(s) \/ DeleteBarrel(s) \/ Spawn(s)
        \/ \E status \in {"ok", "failed", "manual"} : ExecuteOp(s, status)
        \/ CustomsSteps(s)
  BY DEF DrydockNext
<1>2. ASSUME NEW b \in Barrels,
              \/ Create(s, b) \/ RemoveBarrel(s, b) \/ Winetricks(s, b)
              \/ Show(s, b) \/ Maintain(s, b) \/ ExportRecipe(s, b)
              \/ \E p \in Programs : Register(s, b, p) \/ Run(s, b, p)
              \/ \E ps \in SUBSET Programs : Scan(s, b, ps)
      PROVE  PlanInv'
  BY <1>2, BarrelCommandsKeep, ProgramCommandsKeep
<1>3. ASSUME NEW r \in Recipes, LintRecipe(s, r) \/ ShowPlan(s, r) PROVE PlanInv'
  BY <1>3, RecipeCommandsKeep
<1>4. ASSUME NEW r \in Recipes, NEW noLint \in BOOLEAN, NEW force \in BOOLEAN,
              \/ Materialize(s, r, noLint, force)
              \/ \E dry \in BOOLEAN :
                    InstallRecipe(s, r, noLint, force, dry) \/ Install(s, r, noLint, dry)
      PROVE  PlanInv'
  BY <1>4, RecipeCommandsKeep
<1>5. CASE Open(s) \/ CustomsSteps(s)
  BY <1>5, OpenKeeps, CustomsKeep
<1>6. CASE SaveBarrel(s) \/ DeleteBarrel(s) \/ Spawn(s)
  BY <1>6, BarrelStepsKeep, SpawnKeeps
<1>7. CASE \E status \in {"ok", "failed", "manual"} : ExecuteOp(s, status)
  BY <1>7, OperationKeeps
<1> QED BY <1>1, <1>2, <1>3, <1>4, <1>5, <1>6, <1>7

-----------------------------------------------------------------------------
(* Gangway: no operations *)

LEMMA QuietProfiles ==
    ASSUME NEW found \in SUBSET Profiles
    PROVE  LET hosts == SetToSeq(found)
           IN  Quiet(FlattenSeq([i \in 1..Len(hosts) |-> SaveOne(hosts[i])]))
<1> DEFINE hosts == SetToSeq(found)
           S == {Step("save_profile", GangwayId(n), n) : n \in Profiles}
           all == [i \in 1..Len(hosts) |-> SaveOne(hosts[i])]
<1>1. hosts \in Seq(found)
  <2>1. IsFiniteSet(found)
    BY CustomsAssumption, FS_Subset
  <2> QED BY <2>1, OrderType
<1>2. NoOps(S)
  BY StepFields DEF NoOps
<1>3. \A n \in Profiles : SaveOne(n) \in Seq(S)
  <2> TAKE n \in Profiles
  <2>1. PICK x : x = Step("save_profile", GangwayId(n), n)
    OBVIOUS
  <2>2. x \in S
    BY <2>1
  <2> HIDE DEF S
  <2> QED BY <2>1, <2>2 DEF SaveOne
<1>4. all \in Seq(Seq(S))
  <2>1. Len(hosts) \in Nat /\ \A i \in 1..Len(hosts) : hosts[i] \in Profiles
    <3> HIDE DEF hosts
    <3> QED BY <1>1
  <2> HIDE DEF hosts, S
  <2> QED BY <2>1, <1>3
<1>5. FlattenSeq(all) \in Seq(S)
  <2> HIDE DEF all, S
  <2> QED BY <1>4, FlattenType
<1> HIDE DEF S
<1> QED BY <1>2, <1>5 DEF Quiet

LEMMA ProfileCommandsKeep ==
    ASSUME PlanInv, NEW s \in Shells, NEW n \in Profiles, NEW valid \in BOOLEAN,
           \/ RmProfile(s, n) \/ InstallLauncher(s, n)
           \/ OpenProfile(s, n) \/ ShowProfile(s, n) \/ ExportProfile(s, n)
           \/ Add(s, n, valid) \/ Import(s, n, valid)
    PROVE  PlanInv'
<1>0. \A do, id, key : do # "op" => Quiet(<<Step(do, id, key)>>)
  BY QuietOneStep
<1>1. CASE RmProfile(s, n)
  <2>0. PICK gone, off :
             /\ gone = Step("delete_profile", GangwayId(n), Nothing)
             /\ off = Step("remove_entry", GangwayId(n), Nothing)
    OBVIOUS
  <2>1. PICK all : all = <<gone, off>>
    OBVIOUS
  <2>2. NoOps({gone, off})
    BY <2>0, StepFields DEF NoOps
  <2>3. all \in Seq({gone, off})
    <3>1. <<gone, off>> \in Seq({gone, off})
      OBVIOUS
    <3> QED BY <3>1, <2>1
  <2>4. Quiet(all)
    BY <2>2, <2>3 DEF Quiet
  <2>5. Start(s, "rm profile", n, all, 0) \/ Start(s, "rm profile", n, <<>>, 1)
    BY <1>1, <2>0, <2>1 DEF RmProfile
  <2> QED BY <2>4, <2>5, StartOr
<1>2. CASE InstallLauncher(s, n)
  <2>1. PICK a : a = <<Step("write_entry", GangwayId(n), Nothing)>>
    OBVIOUS
  <2>2. Quiet(a)
    BY <2>1, <1>0
  <2>3. Start(s, "install launcher", n, a, 0) \/ Start(s, "install launcher", n, <<>>, 1)
    BY <1>2, <2>1 DEF InstallLauncher
  <2> QED BY <2>2, <2>3, StartOr
<1>3. CASE OpenProfile(s, n) \/ ShowProfile(s, n) \/ ExportProfile(s, n)
  BY <1>3, LookKeeps DEF OpenProfile, ShowProfile, ExportProfile
<1>4. CASE Add(s, n, valid) \/ Import(s, n, valid)
  <2>1. PICK todo : todo = IF valid THEN SaveOne(n) ELSE <<>>
    OBVIOUS
  <2>2. Quiet(todo)
    BY <2>1, <1>0, QuietNothing DEF SaveOne
  <2>3. \/ Start(s, "add", n, todo, IF valid THEN 0 ELSE 2)
        \/ Start(s, "add", n, todo, IF valid THEN 0 ELSE 1)
    BY <1>4, <2>1 DEF Add, Import
  <2> QED BY <2>2, <2>3, StartQuiet
<1> QED BY <1>1, <1>2, <1>3, <1>4

LEMMA HandlerCommandsKeep ==
    ASSUME PlanInv, NEW s \in Shells, RegisterHandler(s) \/ UnregisterHandler(s)
    PROVE  PlanInv'
<1> DEFINE x(do) == Step(do, Handler, FreeRdp)
           S == {x(do) : do \in {"write_entry", "refresh", "load_identity", "register",
                                 "remove_entry", "unregister"}}
           on == <<x("write_entry"), x("refresh"), x("load_identity"), x("register")>>
           off == <<x("remove_entry"), x("load_identity"), x("unregister"), x("refresh")>>
<1>1. NoOps(S)
  <2>1. \A do : x(do).do = do /\ x(do).cfg \in Cfgs
    BY StepFields
  <2> HIDE DEF x
  <2> QED BY <2>1 DEF NoOps
<1>2. on \in Seq(S) /\ off \in Seq(S)
  <2> HIDE DEF x
  <2>1. {x("write_entry"), x("refresh"), x("load_identity"), x("register"), x("remove_entry"),
         x("unregister")} \subseteq S
    OBVIOUS
  <2> HIDE DEF S
  <2> QED BY <2>1
<1>3. Quiet(on) /\ Quiet(off)
  <2> HIDE DEF S, on, off
  <2> QED BY <1>1, <1>2 DEF Quiet
<1>4. \/ Start(s, "register handler", Handler, on, 0)
      \/ Start(s, "unregister handler", Handler, off, 0)
  BY DEF RegisterHandler, UnregisterHandler
<1> HIDE DEF on, off
<1> QED BY <1>3, <1>4, StartQuiet

LEMMA GangwayKeeps == ASSUME PlanInv, GangwayNext PROVE PlanInv'
<1>1. PICK s \in Shells :
        \/ \E n \in Profiles :
              \/ RmProfile(s, n) \/ InstallLauncher(s, n)
              \/ OpenProfile(s, n) \/ ShowProfile(s, n) \/ ExportProfile(s, n)
        \/ \E valid \in BOOLEAN :
              \/ \E n \in Profiles : Add(s, n, valid) \/ Import(s, n, valid)
              \/ \E found \in SUBSET Profiles : Discover(s, found, valid)
              \/ OpenFile(s, valid)
        \/ Share(s) \/ RegisterHandler(s) \/ UnregisterHandler(s)
        \/ SaveProfile(s) \/ DeleteProfile(s) \/ CustomsSteps(s)
  BY DEF GangwayNext
<1>2. ASSUME NEW n \in Profiles, NEW valid \in BOOLEAN,
              \/ RmProfile(s, n) \/ InstallLauncher(s, n)
              \/ OpenProfile(s, n) \/ ShowProfile(s, n) \/ ExportProfile(s, n)
              \/ Add(s, n, valid) \/ Import(s, n, valid)
      PROVE  PlanInv'
  BY <1>2, ProfileCommandsKeep
<1>3. ASSUME NEW found \in SUBSET Profiles, NEW valid \in BOOLEAN, Discover(s, found, valid)
      PROVE  PlanInv'
  <2> DEFINE hosts == SetToSeq(found)
  <2>1. PICK all : all = FlattenSeq([i \in 1..Len(hosts) |-> SaveOne(hosts[i])])
    OBVIOUS
  <2>2. Quiet(all) /\ Quiet(<<>>)
    BY <2>1, QuietProfiles, QuietNothing
  <2>3. PICK todo : todo = IF valid THEN all ELSE <<>>
    OBVIOUS
  <2>4. Quiet(todo)
    BY <2>2, <2>3
  <2>5. Start(s, "add", Nothing, todo, IF valid THEN 0 ELSE 2)
    BY <1>3, <2>1, <2>3 DEF Discover
  <2> QED BY <2>4, <2>5, StartQuiet
<1>4. ASSUME NEW valid \in BOOLEAN, OpenFile(s, valid) PROVE PlanInv'
  BY <1>4, LookKeeps DEF OpenFile
<1>5. CASE Share(s)
  BY <1>5, LookKeeps DEF Share
<1>6. CASE RegisterHandler(s) \/ UnregisterHandler(s)
  BY <1>6, HandlerCommandsKeep
<1>7. CASE SaveProfile(s)
  <2>1. At(s, "save_profile") /\ shells' = Goes(s) /\ store' = store /\ store \in [Barrels -> Cfgs]
    BY <1>7 DEF SaveProfile, PlanInv
  <2> QED BY <2>1, StepTaken
<1>8. CASE DeleteProfile(s)
  <2>1. At(s, "delete_profile") /\ shells' = Goes(s) /\ store' = store /\ store \in [Barrels -> Cfgs]
    BY <1>8 DEF DeleteProfile, PlanInv
  <2> QED BY <2>1, StepTaken
<1>9. CASE CustomsSteps(s)
  BY <1>9, CustomsKeep
<1>10. CASE \E n \in Profiles :
              \/ RmProfile(s, n) \/ InstallLauncher(s, n)
              \/ OpenProfile(s, n) \/ ShowProfile(s, n) \/ ExportProfile(s, n)
  <2>1. TRUE \in BOOLEAN
    OBVIOUS
  <2> QED BY <1>2, <1>10, <2>1
<1>11. CASE \E valid \in BOOLEAN :
              \/ \E n \in Profiles : Add(s, n, valid) \/ Import(s, n, valid)
              \/ \E found \in SUBSET Profiles : Discover(s, found, valid)
              \/ OpenFile(s, valid)
  BY <1>2, <1>3, <1>4, <1>11
<1> QED BY <1>1, <1>5, <1>6, <1>7, <1>8, <1>9, <1>10, <1>11

-----------------------------------------------------------------------------
(* Every behaviour of the two programs together *)

LEMMA NothingPlanned == ASSUME CustomsInit PROVE PlanInv
<1>1. store \in [Barrels -> Cfgs]
  BY DEF CustomsInit, NoBarrel, Cfgs
<1>2. ShellInv(Idle)
  <2>1. PICK cmd, none, rc, raced, idle :
             cmd = "none" /\ none = <<>> /\ rc = 0 /\ raced = FALSE /\ idle = Idle
    OBVIOUS
  <2>2. idle = [cmd |-> cmd, on |-> none, todo |-> none, rc |-> rc, ids |-> NoIds,
                plan |-> none, did |-> <<>>, out |-> <<>>, raced |-> raced]
    BY <2>1 DEF Idle, Nothing
  <2>3. Ready(none, rc, none)
    <3>1. Quiet(none) /\ none \in Seq(Actions) /\ none = none \o Ops(none)
      <4>1. Ops(none) = <<>>
        BY <2>1 DEF Ops
      <4> QED BY <4>1, <2>1, QuietNothing
    <3> QED BY <3>1 DEF Ready
  <2>4. ShellInv(idle)
    BY <2>2, <2>3, NewShell
  <2> QED BY <2>1, <2>4
<1>3. shells = [s \in Shells |-> Idle]
  BY DEF CustomsInit
<1> QED BY <1>1, <1>2, <1>3 DEF PlanInv

\* What a shell has done is the beginning of its plan; at the end with status 0
\* what may be left is one last step, the user's.
LEMMA PlanDone == ASSUME PlanInv PROVE ExitZeroComplete
<1> SUFFICES ASSUME NEW s \in Shells
             PROVE  LET did == shells[s].did
                        plan == shells[s].plan
                        n == Len(plan)
                    IN  /\ \A i \in 1..Len(did) : \A j \in 1..did[i] - 1 :
                              plan[j] # "manual" /\ \E k \in 1..i - 1 : did[k] = j
                        /\ shells[s].todo = <<>> /\ shells[s].rc = 0 =>
                              \/ ToSet(did) = 1..n
                              \/ n > 0 /\ plan[n] = "manual" /\ ToSet(did) = 1..n - 1
  BY DEF ExitZeroComplete
<1>1. PICK sh : sh = shells[s]
  OBVIOUS
<1>2. PICK did, plan : did = sh.did /\ plan = sh.plan
  OBVIOUS
<1>3. /\ did \in Seq(Nat) /\ plan \in Seq(Actions)
      /\ Len(did) <= Len(plan) /\ \A i \in 1..Len(did) : did[i] = i /\ plan[i] # "manual"
      /\ sh.todo = <<>> /\ sh.rc = 0 =>
            /\ Len(plan) <= Len(did) + 1
            /\ \A i \in Len(did) + 1..Len(plan) : plan[i] = "manual"
  BY <1>1, <1>2 DEF PlanInv, ShellInv, ShellShape, InOrder, AtEnd
<1>4. Len(did) \in Nat /\ Len(plan) \in Nat
  BY <1>3
<1>5. ASSUME NEW i \in 1..Len(did), NEW j \in 1..did[i] - 1
      PROVE  plan[j] # "manual" /\ \E k \in 1..i - 1 : did[k] = j
  <2>1. did[i] = i
    BY <1>3
  <2>2. j \in 1..i - 1 /\ j \in 1..Len(did)
    BY <2>1, <1>4
  <2>3. did[j] = j /\ plan[j] # "manual"
    BY <2>2, <1>3
  <2> QED BY <2>2, <2>3
<1>6. ASSUME sh.todo = <<>>, sh.rc = 0
      PROVE  LET n == Len(plan)
             IN  \/ ToSet(did) = 1..n
                 \/ n > 0 /\ plan[n] = "manual" /\ ToSet(did) = 1..n - 1
  <2>1. /\ Len(plan) <= Len(did) + 1
        /\ \A i \in Len(did) + 1..Len(plan) : plan[i] = "manual"
    BY <1>3, <1>6
  <2>2. ToSet(did) = {did[i] : i \in 1..Len(did)}
    BY <1>3 DEF ToSet
  <2>3. ToSet(did) = 1..Len(did)
    BY <2>2, <1>3
  <2>4. CASE Len(plan) = Len(did)
    BY <2>3, <2>4
  <2>5. CASE Len(plan) # Len(did)
    <3>1. Len(plan) = Len(did) + 1
      BY <2>1, <2>5, <1>3, <1>4
    <3>2. plan[Len(plan)] = "manual" /\ Len(plan) > 0 /\ Len(did) = Len(plan) - 1
      BY <3>1, <2>1, <1>4
    <3> QED BY <3>2, <2>3
  <2> QED BY <2>4, <2>5
<1> QED BY <1>1, <1>2, <1>5, <1>6

\* The launchers' part of the composed system.
LaunchersSpec == CustomsInit /\ [][DrydockNext \/ GangwayNext]_customsVars

\* Exit status 0 of an install means that every operation of its plan was
\* performed, in the plan's order and none after a halt, but for a last one that
\* is the user's, for any barrels, recipes, plans, terminals, commands and
\* faults: the report's halt and skip rules lose no other operation.
THEOREM CompleteAtZero == LaunchersSpec => []ExitZeroComplete
<1>1. CustomsInit => PlanInv
  BY NothingPlanned
<1>2. PlanInv /\ [DrydockNext \/ GangwayNext]_customsVars => PlanInv'
  <2> SUFFICES ASSUME PlanInv, [DrydockNext \/ GangwayNext]_customsVars PROVE PlanInv'
    OBVIOUS
  <2>1. CASE DrydockNext
    BY <2>1, DrydockKeeps
  <2>2. CASE GangwayNext
    BY <2>2, GangwayKeeps
  <2>3. CASE UNCHANGED customsVars
    BY <2>3 DEF customsVars, PlanInv
  <2> QED BY <2>1, <2>2, <2>3
<1>3. PlanInv => ExitZeroComplete
  BY PlanDone
<1> QED BY <1>1, <1>2, <1>3, PTL DEF LaunchersSpec
=============================================================================
