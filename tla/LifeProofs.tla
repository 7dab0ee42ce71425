----------------------------- MODULE LifeProofs -----------------------------
(***************************************************************************)
(* Proofs about the life of the kernel module (KernelLife) for every set   *)
(* of processes and tools and every number of contexts.                    *)
(*                                                                         *)
(* Nothing is locked, so the invariant has two parts that hold as long as  *)
(* certain calls never ran at the same time: while no put or mount ran     *)
(* beside another call, whoever uses the context finds it alive; while     *)
(* only one call at a time made or freed a context, each stage of that     *)
(* call determines which contexts there are.                               *)
(***************************************************************************)
EXTENDS Kernel, TLAPS

Active(p) == proc[p].call # "none"
Where(p, S) == Active(p) /\ proc[p].at \in S

Takers   == {"put", "mount"}
Changers == {"get", "put", "mount"}
Calls    == {"get", "put", "mount", "access"} \union Tools

ProcOK(r) ==
    \/ r = NoCall
    \/ /\ DOMAIN r = {"call", "at", "ctx"} /\ r.call \in Calls
       /\ r.call = "get" => r.at \in {"busy", "alloc", "env", "memo", "flag"}
       /\ r.call = "put" => r.at \in {"check", "free", "clear"}
       /\ r.call = "mount" => r.at \in {"busy", "alloc", "env", "memo", "flag", "root", "check", "free", "clear"}
       /\ r.call = "access" => r.at = "use"
       /\ r.call \in Tools => r.at \in {"busy", "run", "end"}

ProcShape == DOMAIN proc = Procs /\ \A p \in Procs : ProcOK(proc[p])

CtxShape ==
    /\ made \in Nat /\ env \in 0 .. made /\ DOMAIN ctxs \subseteq 1 .. made
    /\ \A p \in Procs : Active(p) => proc[p].ctx \in 0 .. made

(* A put or a mount that never met another call is alone. *)
NoRace == \A r \in {"init", "put", "use"} : {"put", r} \notin past
TakerAlone == NoRace => \A p, q \in Procs : proc[p].call \in Takers /\ Active(q) => p = q

(* What is used is alive. *)
Safe == NoRace /\ {"putmounted"} \notin past
Up ==
    /\ mounted => inited
    /\ inited /\ (\A p \in Procs : ~Where(p, {"clear"})) => Alive(env)
Finds(p) ==
    /\ Where(p, {"env"}) => Alive(proc[p].ctx)
    /\ Where(p, {"memo", "flag", "root", "free", "run", "end", "use"}) => Alive(env)
    /\ Where(p, {"root", "free", "clear"}) => inited
    /\ Where(p, {"free", "clear"}) => ~mounted
EnvAlive == Safe => Up /\ \A p \in Procs : Finds(p)

(* Who holds the block device of a mount's context. *)
GetsFd(p) == proc[p].call = "get" /\ proc[p].at = "env" /\ Alive(proc[p].ctx) => ctxs[proc[p].ctx] = "fd"
Owns(p) == /\ proc[p].call = "mount" /\ proc[p].ctx = env
           /\ proc[p].at \in {"memo", "flag", "root", "check", "free"}
Owned ==
    /\ \A p \in Procs : GetsFd(p)
    /\ {"unmounted"} \notin past /\ Alive(env) /\ ctxs[env] # "fd" => mounted \/ \E p \in Procs : Owns(p)

RanBefore  == DOMAIN choices = Tools /\ \A t \in Tools : choices[t] = "freed" => {"ran", t} \in past
HalfLoaded == module = "out" /\ dev => {"halfloaded"} \in past

(* One call at a time that makes or frees a context, and its stages. *)
Serial == {{"init"}, {"put"}, {"init", "put"}} \intersect past = {}
OneChanger ==
    Serial => \A p, q \in Procs : proc[p].call \in Changers /\ proc[q].call \in Changers => p = q
Resting ==
    /\ inited => DOMAIN ctxs = {env} /\ sysvars = env /\ memo = env
    /\ ~inited => DOMAIN ctxs = {}
Stage(p) ==
    /\ proc[p].at \in {"busy", "check"} => Resting
    /\ proc[p].at = "alloc" => ~inited /\ DOMAIN ctxs = {}
    /\ proc[p].at = "env" => ~inited /\ DOMAIN ctxs = {proc[p].ctx} /\ sysvars = proc[p].ctx
    /\ proc[p].at = "memo" => ~inited /\ DOMAIN ctxs = {env} /\ sysvars = env
    /\ proc[p].at = "flag" => ~inited /\ DOMAIN ctxs = {env} /\ sysvars = env /\ memo = env
    /\ proc[p].at \in {"root", "free"} => inited /\ Resting
    /\ proc[p].at = "clear" => inited /\ DOMAIN ctxs = {}
Stages ==
    Serial => /\ \A p \in Procs : proc[p].call \in Changers => Stage(p)
              /\ (\A p \in Procs : proc[p].call \notin Changers) => Resting

LifeInv ==
    /\ ProcShape /\ CtxShape /\ TakerAlone /\ EnvAlive /\ Owned /\ RanBefore /\ HalfLoaded
    /\ OneChanger /\ Stages

-----------------------------------------------------------------------------
(* How a step changes what a process does. *)

Only(p) == DOMAIN proc' = Procs /\ \A q \in Procs : q # p => proc'[q] = proc[q]

LEMMA ToolNames == Tools \intersect {"none", "get", "put", "mount", "access"} = {}
BY KernelAssumption

LEMMA AtMoves ==
    ASSUME ProcShape, NEW p \in Procs, proc[p].call # "none", NEW w, At(p, w)
    PROVE  /\ Only(p) /\ DOMAIN proc'[p] = {"call", "at", "ctx"}
           /\ proc'[p].call = proc[p].call /\ proc'[p].ctx = proc[p].ctx /\ proc'[p].at = w
           /\ proc[p].call \in Calls
<1>1. DOMAIN proc = Procs /\ DOMAIN proc[p] = {"call", "at", "ctx"} /\ proc[p].call \in Calls
  BY DEF ProcShape, ProcOK, NoCall
<1> QED BY <1>1 DEF At, Only

LEMMA ReturnMoves ==
    ASSUME ProcShape, NEW p \in Procs, Return(p)
    PROVE  Only(p) /\ proc'[p] = NoCall /\ proc'[p].call = "none"
BY DEF ProcShape, Return, Only, NoCall

LEMMA EnterMoves ==
    ASSUME ProcShape, NEW p \in Procs, NEW c, NEW w, Enter(p, c, w)
    PROVE  /\ Only(p) /\ proc[p].call = "none" /\ DOMAIN proc'[p] = {"call", "at", "ctx"}
           /\ proc'[p].call = c /\ proc'[p].at = w /\ proc'[p].ctx = 0
           /\ module = "in" /\ past' = past \union Meets(c)
BY DEF ProcShape, Enter, Only, NoCall

(* Calls that only go on or end do not meet. *)
LEMMA CallersKept ==
    ASSUME TakerAlone, OneChanger, past \subseteq past', NEW p \in Procs, Only(p),
           proc'[p].call \in {"none", proc[p].call}
    PROVE  TakerAlone' /\ OneChanger'
<1>1. (NoRace' => NoRace) /\ (Serial' => Serial)
  BY DEF NoRace, Serial
<1>2. \A q \in Procs : proc'[q].call \in {"none", proc[q].call}
  BY DEF Only
<1>3. TakerAlone'
  BY <1>1, <1>2 DEF TakerAlone, Active, Takers
<1>4. OneChanger'
  BY <1>1, <1>2 DEF OneChanger, Changers
<1> QED BY <1>3, <1>4

(* A call that comes is remembered with the calls it meets. *)
LEMMA CallersEnter ==
    ASSUME ProcShape, TakerAlone, OneChanger, NEW p \in Procs, NEW c \in Calls, NEW w, Enter(p, c, w)
    PROVE  TakerAlone' /\ OneChanger'
<1>1. /\ Only(p) /\ proc[p].call = "none" /\ proc'[p].call = c /\ past' = past \union Meets(c)
  BY EnterMoves
<1>2. (NoRace' => NoRace) /\ (Serial' => Serial)
  BY <1>1 DEF NoRace, Serial
<1>3. \A q \in Procs : q # p => proc'[q] = proc[q]
  BY <1>1 DEF Only
<1>4. ASSUME NEW q \in Procs, NEW a \in Role(c), NEW b \in Role(proc[q].call), {a, b} \in Watched
      PROVE  {a, b} \in past'
  BY <1>1, <1>4 DEF Meets
<1>5. \A q \in Procs : proc[q].call \in Calls \union {"none"}
  BY DEF ProcShape, ProcOK, NoCall
<1>6. \A d \in Calls :
        /\ d \in Takers => "put" \in Role(d)
        /\ d \in {"get", "mount"} => "init" \in Role(d)
        /\ \E r \in {"init", "put", "use"} : r \in Role(d)
  BY ToolNames DEF Role, Calls, Takers
<1>7. ASSUME NEW q \in Procs, q # p, Active(q), c \in Takers \/ proc[q].call \in Takers
      PROVE  ~NoRace'
  <2>1. proc[q].call \in Calls
    BY <1>5, <1>7 DEF Active
  <2>2. CASE c \in Takers
    <3>1. PICK r \in {"init", "put", "use"} : r \in Role(proc[q].call)
      BY <1>6, <2>1
    <3>2. {"put", r} \in Watched
      BY DEF Watched
    <3>3. {"put", r} \in past'
      BY <1>4, <1>6, <2>2, <3>1, <3>2
    <3> QED BY <3>3 DEF NoRace
  <2>3. CASE proc[q].call \in Takers
    <3>1. PICK r \in {"init", "put", "use"} : r \in Role(c)
      BY <1>6
    <3>2. {r, "put"} \in Watched /\ {r, "put"} = {"put", r}
      BY DEF Watched
    <3>3. {r, "put"} \in past'
      BY <1>4, <1>6, <2>1, <2>3, <3>1, <3>2
    <3> QED BY <3>2, <3>3 DEF NoRace
  <2> QED BY <1>7, <2>2, <2>3
<1>8. ASSUME NEW q \in Procs, q # p, c \in Changers, proc[q].call \in Changers
      PROVE  ~Serial'
  <2>1. \A d \in Changers : d \in Calls /\ \E r \in {"init", "put"} : r \in Role(d)
    BY <1>6 DEF Changers, Calls, Takers
  <2>2. PICK a \in {"init", "put"} : a \in Role(c)
    BY <1>8, <2>1
  <2>3. PICK b \in {"init", "put"} : b \in Role(proc[q].call)
    BY <1>8, <2>1
  <2>4. {a, b} \in Watched /\ {a, b} \in {{"init"}, {"put"}, {"init", "put"}}
    BY DEF Watched
  <2>5. {a, b} \in past'
    BY <1>4, <2>2, <2>3, <2>4
  <2> QED BY <2>4, <2>5 DEF Serial
<1>9. TakerAlone'
  <2> SUFFICES ASSUME NoRace', NEW x \in Procs, NEW y \in Procs,
                      proc'[x].call \in Takers, proc'[y].call # "none"
               PROVE  x = y
    BY DEF TakerAlone, Active
  <2> QED BY <1>1, <1>2, <1>3, <1>7 DEF TakerAlone, Active, Takers
<1>10. OneChanger'
  <2> SUFFICES ASSUME Serial', NEW x \in Procs, NEW y \in Procs,
                      proc'[x].call \in Changers, proc'[y].call \in Changers
               PROVE  x = y
    BY DEF OneChanger
  <2> QED BY <1>1, <1>2, <1>3, <1>8 DEF OneChanger
<1> QED BY <1>9, <1>10
-----------------------------------------------------------------------------
(* The steps. *)

LEMMA Places ==
    ASSUME ProcShape, NEW p \in Procs, proc[p].call # "none"
    PROVE  /\ proc[p].call \in Calls
           /\ proc[p].at \in {"root", "check", "free", "clear"} => proc[p].call \in Takers
           /\ proc[p].at = "root" => proc[p].call = "mount"
           /\ proc[p].at \in {"alloc", "env", "memo", "flag"} => proc[p].call \in {"get", "mount"}
           /\ proc[p].at \in {"run", "end"} => proc[p].call \in Tools
           /\ proc[p].call \in Tools => proc[p].call \notin Changers
           /\ proc[p].call = "access" => proc[p].at = "use"
           /\ proc[p].call = "get" => proc[p].at # "check"
BY ToolNames DEF ProcShape, ProcOK, NoCall, Calls, Takers, Changers

(* While puts and mounts are alone, who is beside another call is neither. *)
LEMMA OthersTakeNot ==
    ASSUME ProcShape, TakerAlone, TakerAlone', NoRace, NoRace', NEW p \in Procs, Only(p),
           proc[p].call # "none" \/ proc'[p].call # "none",
           NEW q \in Procs, q # p, proc[q].call # "none"
    PROVE  proc[q].call \notin Takers /\ proc[q].at \notin {"root", "check", "free", "clear"}
<1>1. proc[q].call \notin Takers
  BY DEF TakerAlone, Active, Only
<1> QED BY <1>1, Places

(* A step of the one call that makes or frees a context, or the start of   *)
(* such a call.                                                            *)
LEMMA StagesChanger ==
    ASSUME LifeInv, NEW p \in Procs, Only(p), Serial' => Serial, OneChanger',
           proc[p].call \in Changers \/ proc'[p].call \in Changers,
           Serial' => /\ proc'[p].call \in Changers => Stage(p)'
                      /\ proc'[p].call \notin Changers => Resting'
    PROVE  Stages'
<1> SUFFICES ASSUME Serial' PROVE /\ \A q \in Procs : proc'[q].call \in Changers => Stage(q)'
                                  /\ (\A q \in Procs : proc'[q].call \notin Changers) => Resting'
  BY DEF Stages
<1>1. ASSUME NEW q \in Procs, q # p PROVE proc'[q].call \notin Changers
  <2>1. proc'[q] = proc[q]
    BY <1>1 DEF Only
  <2>2. CASE proc[p].call \in Changers
    BY <1>1, <2>1, <2>2 DEF LifeInv, OneChanger
  <2>3. CASE proc'[p].call \in Changers
    BY <1>1, <2>1, <2>3 DEF OneChanger
  <2> QED BY <2>2, <2>3
<1> QED BY <1>1

LEMMA StagesOther ==
    ASSUME Stages, Serial' => Serial, UNCHANGED envvars, NEW p \in Procs, Only(p),
           proc[p].call \notin Changers, proc'[p].call \notin Changers
    PROVE  Stages'
<1> SUFFICES ASSUME Serial' PROVE /\ \A q \in Procs : proc'[q].call \in Changers => Stage(q)'
                                  /\ (\A q \in Procs : proc'[q].call \notin Changers) => Resting'
  BY DEF Stages
<1>1. Resting' = Resting
  BY DEF envvars, Resting
<1>2. ASSUME NEW q \in Procs, q # p PROVE proc'[q] = proc[q] /\ (Stage(q) => Stage(q)')
  <2>1. proc'[q] = proc[q]
    BY <1>2 DEF Only
  <2> QED BY <1>1, <2>1 DEF Stage, envvars
<1>3. \A q \in Procs : (proc'[q].call \in Changers => proc[q].call \in Changers) /\ (proc[q].call \in Changers => proc'[q].call \in Changers)
  BY <1>2
<1> QED BY <1>1, <1>2, <1>3 DEF Stages

LEMMA InitCheckSafe ==
    ASSUME LifeInv, NEW p \in Procs, NEW c \in {"get", "mount"}, InitCheck(p, c)
    PROVE  LifeInv'
<1>0. ProcShape
  BY DEF LifeInv
<1>1. /\ Only(p) /\ proc[p].call = "none" /\ DOMAIN proc'[p] = {"call", "at", "ctx"}
      /\ proc'[p].call = c /\ proc'[p].ctx = 0 /\ past \subseteq past'
      /\ proc'[p].at = (IF inited THEN "busy" ELSE "alloc") /\ (c = "mount" => ~mounted)
      /\ module' = module /\ dev' = dev /\ choices' = choices /\ mounted' = mounted
      /\ inited' = inited /\ env' = env /\ ctxs' = ctxs /\ sysvars' = sysvars /\ memo' = memo /\ made' = made
  BY <1>0, EnterMoves DEF InitCheck, rtvars, envvars
<1>2. /\ NoRace' => NoRace
      /\ Safe' => Safe
      /\ Serial' => Serial
      /\ {"unmounted"} \notin past' => {"unmounted"} \notin past
      /\ \A t \in Tools : {"ran", t} \in past => {"ran", t} \in past'
      /\ {"halfloaded"} \in past => {"halfloaded"} \in past'
  BY <1>1 DEF Safe, NoRace, Serial
<1>3. ProcShape' /\ CtxShape'
  BY <1>1, ToolNames DEF LifeInv, ProcShape, ProcOK, CtxShape, Only, Active, Calls, NoCall
<1>4. TakerAlone' /\ OneChanger'
  BY <1>0, CallersEnter DEF LifeInv, InitCheck, Calls
<1>5. EnvAlive'
  <2> SUFFICES ASSUME Safe' PROVE Up' /\ \A q \in Procs : Finds(q)'
    BY DEF EnvAlive
  <2>1. Up /\ (\A q \in Procs : Finds(q)) /\ NoRace /\ NoRace'
    BY <1>2 DEF LifeInv, EnvAlive, Safe
  <2>2. \A q \in Procs : Active(q) /\ q # p => proc[q].call \notin Takers /\ proc[q].at \notin {"root", "check", "free", "clear"}
    BY <1>0, <1>1, <1>4, <2>1, ToolNames, OthersTakeNot DEF LifeInv, Active
  <2>3. Up'
    BY <1>1, <2>1, <2>2 DEF Up, Finds, Where, Active, Only, Alive
  <2>4. Finds(p)'
    BY <1>1, <2>1, <2>2 DEF Safe, Up, Finds, Where, Active, Alive
  <2>5. ASSUME NEW q \in Procs, q # p PROVE Finds(q)'
    BY <1>1, <2>1, <2>2, <2>5 DEF Finds, Where, Active, Only, Alive
  <2> QED BY <2>3, <2>4, <2>5
<1>6. Owned'
  BY <1>1, <1>2 DEF LifeInv, Owned, GetsFd, Owns, Alive, Only
<1>7. RanBefore' /\ HalfLoaded'
  BY <1>1, <1>2 DEF LifeInv, RanBefore, HalfLoaded
<1>8. Stages'
  <2>1. ASSUME Serial' PROVE Resting
    <3>1. proc'[p].call \in Changers
      BY <1>1 DEF Changers
    <3>2. \A q \in Procs : proc[q].call \notin Changers
      BY <1>1, <1>4, <2>1, <3>1 DEF OneChanger, Only, Changers
    <3> QED BY <1>2, <2>1, <3>2 DEF LifeInv, Stages
  <2>2. proc'[p].call \in Changers /\ (Serial' => Stage(p)')
    BY <1>1, <2>1 DEF Stage, Resting, Changers
  <2> QED BY <1>1, <1>2, <1>4, <2>2, StagesChanger
<1> QED BY <1>3, <1>4, <1>5, <1>6, <1>7, <1>8 DEF LifeInv

LEMMA PutEnterSafe ==
    ASSUME LifeInv, NEW p \in Procs, Put(p)
    PROVE  LifeInv'
<1>0. ProcShape
  BY DEF LifeInv
<1>1. /\ Only(p) /\ proc[p].call = "none" /\ DOMAIN proc'[p] = {"call", "at", "ctx"}
      /\ proc'[p].call = "put" /\ proc'[p].ctx = 0 /\ past \subseteq past'
      /\ proc'[p].at = "check"
      /\ module' = module /\ dev' = dev /\ choices' = choices /\ mounted' = mounted
      /\ inited' = inited /\ env' = env /\ ctxs' = ctxs /\ sysvars' = sysvars /\ memo' = memo /\ made' = made
  BY <1>0, EnterMoves DEF Put, rtvars, envvars
<1>2. /\ NoRace' => NoRace
      /\ Safe' => Safe
      /\ Serial' => Serial
      /\ {"unmounted"} \notin past' => {"unmounted"} \notin past
      /\ \A t \in Tools : {"ran", t} \in past => {"ran", t} \in past'
      /\ {"halfloaded"} \in past => {"halfloaded"} \in past'
  BY <1>1 DEF Safe, NoRace, Serial
<1>3. ProcShape' /\ CtxShape'
  BY <1>1, ToolNames DEF LifeInv, ProcShape, ProcOK, CtxShape, Only, Active, Calls, NoCall
<1>4. TakerAlone' /\ OneChanger'
  BY <1>0, CallersEnter DEF LifeInv, Put, Calls
<1>5. EnvAlive'
  <2> SUFFICES ASSUME Safe' PROVE Up' /\ \A q \in Procs : Finds(q)'
    BY DEF EnvAlive
  <2>1. Up /\ (\A q \in Procs : Finds(q)) /\ NoRace /\ NoRace'
    BY <1>2 DEF LifeInv, EnvAlive, Safe
  <2>2. \A q \in Procs : Active(q) /\ q # p => proc[q].call \notin Takers /\ proc[q].at \notin {"root", "check", "free", "clear"}
    BY <1>0, <1>1, <1>4, <2>1, ToolNames, OthersTakeNot DEF LifeInv, Active
  <2>3. Up'
    BY <1>1, <2>1, <2>2 DEF Up, Finds, Where, Active, Only, Alive
  <2>4. Finds(p)'
    BY <1>1, <2>1, <2>2 DEF Safe, Up, Finds, Where, Active, Alive
  <2>5. ASSUME NEW q \in Procs, q # p PROVE Finds(q)'
    BY <1>1, <2>1, <2>2, <2>5 DEF Finds, Where, Active, Only, Alive
  <2> QED BY <2>3, <2>4, <2>5
<1>6. Owned'
  BY <1>1, <1>2 DEF LifeInv, Owned, GetsFd, Owns, Alive, Only
<1>7. RanBefore' /\ HalfLoaded'
  BY <1>1, <1>2 DEF LifeInv, RanBefore, HalfLoaded
<1>8. Stages'
  <2>1. ASSUME Serial' PROVE Resting
    <3>1. proc'[p].call \in Changers
      BY <1>1 DEF Changers
    <3>2. \A q \in Procs : proc[q].call \notin Changers
      BY <1>1, <1>4, <2>1, <3>1 DEF OneChanger, Only, Changers
    <3> QED BY <1>2, <2>1, <3>2 DEF LifeInv, Stages
  <2>2. proc'[p].call \in Changers /\ (Serial' => Stage(p)')
    BY <1>1, <2>1 DEF Stage, Resting, Changers
  <2> QED BY <1>1, <1>2, <1>4, <2>2, StagesChanger
<1> QED BY <1>3, <1>4, <1>5, <1>6, <1>7, <1>8 DEF LifeInv

LEMMA ToolEnterSafe ==
    ASSUME LifeInv, NEW p \in Procs, NEW t \in Tools, Tool(p, t)
    PROVE  LifeInv'
<1>0. ProcShape
  BY DEF LifeInv
<1>1. /\ Only(p) /\ proc[p].call = "none" /\ DOMAIN proc'[p] = {"call", "at", "ctx"}
      /\ proc'[p].call = t /\ proc'[p].ctx = 0 /\ past \subseteq past'
      /\ proc'[p].at = (IF inited THEN "run" ELSE "busy")
      /\ module' = module /\ dev' = dev /\ choices' = choices /\ mounted' = mounted
      /\ inited' = inited /\ env' = env /\ ctxs' = ctxs /\ sysvars' = sysvars /\ memo' = memo /\ made' = made
  BY <1>0, EnterMoves DEF Tool, rtvars, envvars
<1>2. /\ NoRace' => NoRace
      /\ Safe' => Safe
      /\ Serial' => Serial
      /\ {"unmounted"} \notin past' => {"unmounted"} \notin past
      /\ \A u \in Tools : {"ran", u} \in past => {"ran", u} \in past'
      /\ {"halfloaded"} \in past => {"halfloaded"} \in past'
  BY <1>1 DEF Safe, NoRace, Serial
<1>3. ProcShape' /\ CtxShape'
  BY <1>1, ToolNames DEF LifeInv, ProcShape, ProcOK, CtxShape, Only, Active, Calls, NoCall
<1>4. TakerAlone' /\ OneChanger'
  BY <1>0, CallersEnter DEF LifeInv, Tool, Calls
<1>5. EnvAlive'
  <2> SUFFICES ASSUME Safe' PROVE Up' /\ \A q \in Procs : Finds(q)'
    BY DEF EnvAlive
  <2>1. Up /\ (\A q \in Procs : Finds(q)) /\ NoRace /\ NoRace'
    BY <1>2 DEF LifeInv, EnvAlive, Safe
  <2>2. \A q \in Procs : Active(q) /\ q # p => proc[q].call \notin Takers /\ proc[q].at \notin {"root", "check", "free", "clear"}
    BY <1>0, <1>1, <1>4, <2>1, ToolNames, OthersTakeNot DEF LifeInv, Active
  <2>3. Up'
    BY <1>1, <2>1, <2>2 DEF Up, Finds, Where, Active, Only, Alive
  <2>4. Finds(p)'
    BY <1>1, <2>1, <2>2 DEF Safe, Up, Finds, Where, Active, Alive
  <2>5. ASSUME NEW q \in Procs, q # p PROVE Finds(q)'
    BY <1>1, <2>1, <2>2, <2>5 DEF Finds, Where, Active, Only, Alive
  <2> QED BY <2>3, <2>4, <2>5
<1>6. Owned'
  BY <1>1, <1>2 DEF LifeInv, Owned, GetsFd, Owns, Alive, Only
<1>7. RanBefore' /\ HalfLoaded'
  BY <1>1, <1>2 DEF LifeInv, RanBefore, HalfLoaded
<1>8. Stages'
  BY <1>0, <1>1, <1>2, ToolNames, StagesOther DEF LifeInv, Changers, envvars
<1> QED BY <1>3, <1>4, <1>5, <1>6, <1>7, <1>8 DEF LifeInv

LEMMA AccessEnterSafe ==
    ASSUME LifeInv, NEW p \in Procs, Access(p)
    PROVE  LifeInv'
<1>0. ProcShape
  BY DEF LifeInv
<1>1. /\ Only(p) /\ proc[p].call = "none" /\ DOMAIN proc'[p] = {"call", "at", "ctx"}
      /\ proc'[p].call = "access" /\ proc'[p].ctx = 0 /\ past \subseteq past'
      /\ proc'[p].at = "use" /\ mounted
      /\ module' = module /\ dev' = dev /\ choices' = choices /\ mounted' = mounted
      /\ inited' = inited /\ env' = env /\ ctxs' = ctxs /\ sysvars' = sysvars /\ memo' = memo /\ made' = made
  BY <1>0, EnterMoves DEF Access, rtvars, envvars
<1>2. /\ NoRace' => NoRace
      /\ Safe' => Safe
      /\ Serial' => Serial
      /\ {"unmounted"} \notin past' => {"unmounted"} \notin past
      /\ \A t \in Tools : {"ran", t} \in past => {"ran", t} \in past'
      /\ {"halfloaded"} \in past => {"halfloaded"} \in past'
  BY <1>1 DEF Safe, NoRace, Serial
<1>3. ProcShape' /\ CtxShape'
  BY <1>1, ToolNames DEF LifeInv, ProcShape, ProcOK, CtxShape, Only, Active, Calls, NoCall
<1>4. TakerAlone' /\ OneChanger'
  BY <1>0, CallersEnter DEF LifeInv, Access, Calls
<1>5. EnvAlive'
  <2> SUFFICES ASSUME Safe' PROVE Up' /\ \A q \in Procs : Finds(q)'
    BY DEF EnvAlive
  <2>1. Up /\ (\A q \in Procs : Finds(q)) /\ NoRace /\ NoRace'
    BY <1>2 DEF LifeInv, EnvAlive, Safe
  <2>2. \A q \in Procs : Active(q) /\ q # p => proc[q].call \notin Takers /\ proc[q].at \notin {"root", "check", "free", "clear"}
    BY <1>0, <1>1, <1>4, <2>1, ToolNames, OthersTakeNot DEF LifeInv, Active
  <2>3. Up'
    BY <1>1, <2>1, <2>2 DEF Up, Finds, Where, Active, Only, Alive
  <2>4. Finds(p)'
    BY <1>1, <2>1, <2>2 DEF Safe, Up, Finds, Where, Active, Alive
  <2>5. ASSUME NEW q \in Procs, q # p PROVE Finds(q)'
    BY <1>1, <2>1, <2>2, <2>5 DEF Finds, Where, Active, Only, Alive
  <2> QED BY <2>3, <2>4, <2>5
<1>6. Owned'
  BY <1>1, <1>2 DEF LifeInv, Owned, GetsFd, Owns, Alive, Only
<1>7. RanBefore' /\ HalfLoaded'
  BY <1>1, <1>2 DEF LifeInv, RanBefore, HalfLoaded
<1>8. Stages'
  BY <1>0, <1>1, <1>2, ToolNames, StagesOther DEF LifeInv, Changers, envvars
<1> QED BY <1>3, <1>4, <1>5, <1>6, <1>7, <1>8 DEF LifeInv

LEMMA RefusedSafe ==
    ASSUME LifeInv, NEW p \in Procs, Refused(p)
    PROVE  LifeInv'
<1>0. ProcShape
  BY DEF LifeInv
<1>1. /\ Only(p) /\ proc'[p] = NoCall /\ proc'[p].call = "none" /\ proc[p].call # "none"
      /\ past \subseteq past' /\ proc[p].at = "busy"
      /\ module' = module /\ dev' = dev /\ choices' = choices /\ mounted' = mounted
      /\ inited' = inited /\ env' = env /\ ctxs' = ctxs /\ sysvars' = sysvars /\ memo' = memo /\ made' = made
  BY <1>0, ReturnMoves DEF Refused, rtvars, envvars
<1>2. /\ NoRace' => NoRace
      /\ Safe' => Safe
      /\ Serial' => Serial
      /\ {"unmounted"} \notin past' => {"unmounted"} \notin past
      /\ \A t \in Tools : {"ran", t} \in past => {"ran", t} \in past'
      /\ {"halfloaded"} \in past => {"halfloaded"} \in past'
  BY <1>1 DEF Safe, NoRace, Serial
<1>3. ProcShape' /\ CtxShape'
  BY <1>1, ToolNames DEF LifeInv, ProcShape, ProcOK, CtxShape, Only, Active, Calls, NoCall
<1>4. TakerAlone' /\ OneChanger'
  BY <1>0, <1>1, CallersKept DEF LifeInv
<1>5. EnvAlive'
  <2> SUFFICES ASSUME Safe' PROVE Up' /\ \A q \in Procs : Finds(q)'
    BY DEF EnvAlive
  <2>1. Up /\ (\A q \in Procs : Finds(q)) /\ NoRace /\ NoRace'
    BY <1>2 DEF LifeInv, EnvAlive, Safe
  <2>2. \A q \in Procs : Active(q) /\ q # p => proc[q].call \notin Takers /\ proc[q].at \notin {"root", "check", "free", "clear"}
    BY <1>0, <1>1, <1>4, <2>1, ToolNames, OthersTakeNot DEF LifeInv, Active
  <2>3. Up'
    BY <1>1, <2>1, <2>2 DEF Up, Finds, Where, Active, Only, Alive
  <2>4. Finds(p)'
    BY <1>1, <2>1, <2>2 DEF Safe, Up, Finds, Where, Active, Alive
  <2>5. ASSUME NEW q \in Procs, q # p PROVE Finds(q)'
    BY <1>1, <2>1, <2>2, <2>5 DEF Finds, Where, Active, Only, Alive
  <2> QED BY <2>3, <2>4, <2>5
<1>6. Owned'
  BY <1>1, <1>2 DEF LifeInv, Owned, GetsFd, Owns, Alive, Only
<1>7. RanBefore' /\ HalfLoaded'
  BY <1>1, <1>2 DEF LifeInv, RanBefore, HalfLoaded
<1>8. Stages'
  <2>1. CASE proc[p].call \in Changers
    <3>1. Serial => Resting /\ Resting'
      BY <1>1, <2>1 DEF LifeInv, Stages, Stage, Resting
    <3> QED BY <1>1, <1>2, <1>4, <2>1, <3>1, StagesChanger DEF Changers
  <2>2. CASE proc[p].call \notin Changers
    BY <1>1, <1>2, <2>2, StagesOther DEF LifeInv, Changers, envvars
  <2> QED BY <2>1, <2>2
<1> QED BY <1>3, <1>4, <1>5, <1>6, <1>7, <1>8 DEF LifeInv

LEMMA SetEnvSafe ==
    ASSUME LifeInv, NEW p \in Procs, SetEnv(p)
    PROVE  LifeInv'
<1>0. ProcShape
  BY DEF LifeInv
<1>1. /\ Only(p) /\ proc'[p].call = proc[p].call /\ proc'[p].ctx = proc[p].ctx /\ proc'[p].at = "memo"
      /\ DOMAIN proc'[p] = {"call", "at", "ctx"} /\ proc[p].call \in Calls /\ proc[p].call # "none"
      /\ past \subseteq past' /\ proc[p].at = "env"
      /\ module' = module /\ dev' = dev /\ choices' = choices /\ mounted' = mounted
      /\ inited' = inited /\ env' = proc[p].ctx /\ ctxs' = ctxs /\ sysvars' = sysvars /\ memo' = memo /\ made' = made
  BY <1>0, AtMoves DEF SetEnv, rtvars, envvars
<1>2. /\ NoRace' => NoRace
      /\ Safe' => Safe
      /\ Serial' => Serial
      /\ {"unmounted"} \notin past' => {"unmounted"} \notin past
      /\ \A t \in Tools : {"ran", t} \in past => {"ran", t} \in past'
      /\ {"halfloaded"} \in past => {"halfloaded"} \in past'
  BY <1>1 DEF Safe, NoRace, Serial
<1>3. ProcShape' /\ CtxShape'
  BY <1>1, ToolNames DEF LifeInv, ProcShape, ProcOK, CtxShape, Only, Active, Calls, NoCall
<1>4. TakerAlone' /\ OneChanger'
  BY <1>0, <1>1, CallersKept DEF LifeInv
<1>5. EnvAlive'
  <2> SUFFICES ASSUME Safe' PROVE Up' /\ \A q \in Procs : Finds(q)'
    BY DEF EnvAlive
  <2>1. Up /\ (\A q \in Procs : Finds(q)) /\ NoRace /\ NoRace'
    BY <1>2 DEF LifeInv, EnvAlive, Safe
  <2>2. \A q \in Procs : Active(q) /\ q # p => proc[q].call \notin Takers /\ proc[q].at \notin {"root", "check", "free", "clear"}
    BY <1>0, <1>1, <1>4, <2>1, ToolNames, OthersTakeNot DEF LifeInv, Active
  <2>3. Up'
    BY <1>1, <2>1, <2>2 DEF Up, Finds, Where, Active, Only, Alive
  <2>4. Finds(p)'
    BY <1>1, <2>1, <2>2 DEF Safe, Up, Finds, Where, Active, Alive
  <2>5. ASSUME NEW q \in Procs, q # p PROVE Finds(q)'
    BY <1>1, <2>1, <2>2, <2>5 DEF Finds, Where, Active, Only, Alive
  <2> QED BY <2>3, <2>4, <2>5
<1>6. Owned'
  BY <1>0, <1>1, <1>2, Places DEF LifeInv, Owned, GetsFd, Owns, Alive, Only
<1>7. RanBefore' /\ HalfLoaded'
  BY <1>1, <1>2 DEF LifeInv, RanBefore, HalfLoaded
<1>8. Stages'
  <2>1. proc[p].call \in Changers
    BY <1>0, <1>1, Places DEF Takers, Changers
  <2>2. Serial => Stage(p)
    BY <2>1 DEF LifeInv, Stages
  <2>3. Serial => /\ proc'[p].call \in Changers => Stage(p)'
                  /\ proc'[p].call \notin Changers => Resting'
    BY <1>1, <2>1, <2>2 DEF Stage, Resting, Changers
  <2> QED BY <1>1, <1>2, <1>4, <2>1, <2>3, StagesChanger
<1> QED BY <1>3, <1>4, <1>5, <1>6, <1>7, <1>8 DEF LifeInv

LEMMA LoadMemoSafe ==
    ASSUME LifeInv, NEW p \in Procs, fsl_load_memo(p)
    PROVE  LifeInv'
<1>0. ProcShape
  BY DEF LifeInv
<1>1. /\ Only(p) /\ proc'[p].call = proc[p].call /\ proc'[p].ctx = proc[p].ctx /\ proc'[p].at = "flag"
      /\ DOMAIN proc'[p] = {"call", "at", "ctx"} /\ proc[p].call \in Calls /\ proc[p].call # "none"
      /\ past \subseteq past' /\ proc[p].at = "memo"
      /\ module' = module /\ dev' = dev /\ choices' = choices /\ mounted' = mounted
      /\ inited' = inited /\ env' = env /\ ctxs' = ctxs /\ sysvars' = sysvars /\ memo' = env /\ made' = made
  BY <1>0, AtMoves DEF fsl_load_memo, rtvars, envvars
<1>2. /\ NoRace' => NoRace
      /\ Safe' => Safe
      /\ Serial' => Serial
      /\ {"unmounted"} \notin past' => {"unmounted"} \notin past
      /\ \A t \in Tools : {"ran", t} \in past => {"ran", t} \in past'
      /\ {"halfloaded"} \in past => {"halfloaded"} \in past'
  BY <1>1 DEF Safe, NoRace, Serial
<1>3. ProcShape' /\ CtxShape'
  BY <1>1, ToolNames DEF LifeInv, ProcShape, ProcOK, CtxShape, Only, Active, Calls, NoCall
<1>4. TakerAlone' /\ OneChanger'
  BY <1>0, <1>1, CallersKept DEF LifeInv
<1>5. EnvAlive'
  <2> SUFFICES ASSUME Safe' PROVE Up' /\ \A q \in Procs : Finds(q)'
    BY DEF EnvAlive
  <2>1. Up /\ (\A q \in Procs : Finds(q)) /\ NoRace /\ NoRace'
    BY <1>2 DEF LifeInv, EnvAlive, Safe
  <2>2. \A q \in Procs : Active(q) /\ q # p => proc[q].call \notin Takers /\ proc[q].at \notin {"root", "check", "free", "clear"}
    BY <1>0, <1>1, <1>4, <2>1, ToolNames, OthersTakeNot DEF LifeInv, Active
  <2>3. Up'
    BY <1>1, <2>1, <2>2 DEF Up, Finds, Where, Active, Only, Alive
  <2>4. Finds(p)'
    BY <1>1, <2>1, <2>2 DEF Safe, Up, Finds, Where, Active, Alive
  <2>5. ASSUME NEW q \in Procs, q # p PROVE Finds(q)'
    BY <1>1, <2>1, <2>2, <2>5 DEF Finds, Where, Active, Only, Alive
  <2> QED BY <2>3, <2>4, <2>5
<1>6. Owned'
  BY <1>1, <1>2 DEF LifeInv, Owned, GetsFd, Owns, Alive, Only
<1>7. RanBefore' /\ HalfLoaded'
  BY <1>1, <1>2 DEF LifeInv, RanBefore, HalfLoaded
<1>8. Stages'
  <2>1. proc[p].call \in Changers
    BY <1>0, <1>1, Places DEF Takers, Changers
  <2>2. Serial => Stage(p)
    BY <2>1 DEF LifeInv, Stages
  <2>3. Serial => /\ proc'[p].call \in Changers => Stage(p)'
                  /\ proc'[p].call \notin Changers => Resting'
    BY <1>1, <2>1, <2>2 DEF Stage, Resting, Changers
  <2> QED BY <1>1, <1>2, <1>4, <2>1, <2>3, StagesChanger
<1> QED BY <1>3, <1>4, <1>5, <1>6, <1>7, <1>8 DEF LifeInv

LEMMA SetInitedMountSafe ==
    ASSUME LifeInv, NEW p \in Procs, SetInited(p), proc[p].call = "mount"
    PROVE  LifeInv'
<1>0. ProcShape
  BY DEF LifeInv
<1>1. /\ Only(p) /\ proc'[p].call = proc[p].call /\ proc'[p].ctx = proc[p].ctx /\ proc'[p].at = "root"
      /\ DOMAIN proc'[p] = {"call", "at", "ctx"} /\ proc[p].call \in Calls /\ proc[p].call # "none"
      /\ past \subseteq past' /\ proc[p].at = "flag" /\ proc[p].call = "mount"
      /\ module' = module /\ dev' = dev /\ choices' = choices /\ mounted' = mounted
      /\ inited' = TRUE /\ env' = env /\ ctxs' = ctxs /\ sysvars' = sysvars /\ memo' = memo /\ made' = made
  BY <1>0, AtMoves DEF SetInited, rtvars, envvars
<1>2. /\ NoRace' => NoRace
      /\ Safe' => Safe
      /\ Serial' => Serial
      /\ {"unmounted"} \notin past' => {"unmounted"} \notin past
      /\ \A t \in Tools : {"ran", t} \in past => {"ran", t} \in past'
      /\ {"halfloaded"} \in past => {"halfloaded"} \in past'
  BY <1>1 DEF Safe, NoRace, Serial
<1>3. ProcShape' /\ CtxShape'
  BY <1>1, ToolNames DEF LifeInv, ProcShape, ProcOK, CtxShape, Only, Active, Calls, NoCall
<1>4. TakerAlone' /\ OneChanger'
  BY <1>0, <1>1, CallersKept DEF LifeInv
<1>5. EnvAlive'
  <2> SUFFICES ASSUME Safe' PROVE Up' /\ \A q \in Procs : Finds(q)'
    BY DEF EnvAlive
  <2>1. Up /\ (\A q \in Procs : Finds(q)) /\ NoRace /\ NoRace'
    BY <1>2 DEF LifeInv, EnvAlive, Safe
  <2>2. \A q \in Procs : Active(q) /\ q # p => proc[q].call \notin Takers /\ proc[q].at \notin {"root", "check", "free", "clear"}
    BY <1>0, <1>1, <1>4, <2>1, ToolNames, OthersTakeNot DEF LifeInv, Active
  <2>3. Up'
    BY <1>1, <2>1, <2>2 DEF Up, Finds, Where, Active, Only, Alive
  <2>4. Finds(p)'
    BY <1>1, <2>1, <2>2 DEF Safe, Up, Finds, Where, Active, Alive
  <2>5. ASSUME NEW q \in Procs, q # p PROVE Finds(q)'
    BY <1>1, <2>1, <2>2, <2>5 DEF Finds, Where, Active, Only, Alive
  <2> QED BY <2>3, <2>4, <2>5
<1>6. Owned'
  BY <1>1, <1>2 DEF LifeInv, Owned, GetsFd, Owns, Alive, Only
<1>7. RanBefore' /\ HalfLoaded'
  BY <1>1, <1>2 DEF LifeInv, RanBefore, HalfLoaded
<1>8. Stages'
  <2>1. proc[p].call \in Changers
    BY <1>0, <1>1, Places DEF Takers, Changers
  <2>2. Serial => Stage(p)
    BY <2>1 DEF LifeInv, Stages
  <2>3. Serial => /\ proc'[p].call \in Changers => Stage(p)'
                  /\ proc'[p].call \notin Changers => Resting'
    BY <1>1, <2>1, <2>2 DEF Stage, Resting, Changers
  <2> QED BY <1>1, <1>2, <1>4, <2>1, <2>3, StagesChanger
<1> QED BY <1>3, <1>4, <1>5, <1>6, <1>7, <1>8 DEF LifeInv

LEMMA SetInitedGetSafe ==
    ASSUME LifeInv, NEW p \in Procs, SetInited(p), proc[p].call # "mount"
    PROVE  LifeInv'
<1>0. ProcShape
  BY DEF LifeInv
<1>1. /\ Only(p) /\ proc'[p] = NoCall /\ proc'[p].call = "none" /\ proc[p].call # "none"
      /\ past \subseteq past' /\ proc[p].at = "flag" /\ proc[p].call # "mount"
      /\ module' = module /\ dev' = dev /\ choices' = choices /\ mounted' = mounted
      /\ inited' = TRUE /\ env' = env /\ ctxs' = ctxs /\ sysvars' = sysvars /\ memo' = memo /\ made' = made
  BY <1>0, ReturnMoves DEF SetInited, rtvars, envvars
<1>2. /\ NoRace' => NoRace
      /\ Safe' => Safe
      /\ Serial' => Serial
      /\ {"unmounted"} \notin past' => {"unmounted"} \notin past
      /\ \A t \in Tools : {"ran", t} \in past => {"ran", t} \in past'
      /\ {"halfloaded"} \in past => {"halfloaded"} \in past'
  BY <1>1 DEF Safe, NoRace, Serial
<1>3. ProcShape' /\ CtxShape'
  BY <1>1, ToolNames DEF LifeInv, ProcShape, ProcOK, CtxShape, Only, Active, Calls, NoCall
<1>4. TakerAlone' /\ OneChanger'
  BY <1>0, <1>1, CallersKept DEF LifeInv
<1>5. EnvAlive'
  <2> SUFFICES ASSUME Safe' PROVE Up' /\ \A q \in Procs : Finds(q)'
    BY DEF EnvAlive
  <2>1. Up /\ (\A q \in Procs : Finds(q)) /\ NoRace /\ NoRace'
    BY <1>2 DEF LifeInv, EnvAlive, Safe
  <2>2. \A q \in Procs : Active(q) /\ q # p => proc[q].call \notin Takers /\ proc[q].at \notin {"root", "check", "free", "clear"}
    BY <1>0, <1>1, <1>4, <2>1, ToolNames, OthersTakeNot DEF LifeInv, Active
  <2>3. Up'
    BY <1>1, <2>1, <2>2 DEF Up, Finds, Where, Active, Only, Alive
  <2>4. Finds(p)'
    BY <1>1, <2>1, <2>2 DEF Safe, Up, Finds, Where, Active, Alive
  <2>5. ASSUME NEW q \in Procs, q # p PROVE Finds(q)'
    BY <1>1, <2>1, <2>2, <2>5 DEF Finds, Where, Active, Only, Alive
  <2> QED BY <2>3, <2>4, <2>5
<1>6. Owned'
  BY <1>1, <1>2 DEF LifeInv, Owned, GetsFd, Owns, Alive, Only
<1>7. RanBefore' /\ HalfLoaded'
  BY <1>1, <1>2 DEF LifeInv, RanBefore, HalfLoaded
<1>8. Stages'
  <2>1. proc[p].call \in Changers
    BY <1>0, <1>1, Places DEF Takers, Changers
  <2>2. Serial => Stage(p)
    BY <2>1 DEF LifeInv, Stages
  <2>3. Serial => /\ proc'[p].call \in Changers => Stage(p)'
                  /\ proc'[p].call \notin Changers => Resting'
    BY <1>1, <2>1, <2>2 DEF Stage, Resting, Changers
  <2> QED BY <1>1, <1>2, <1>4, <2>1, <2>3, StagesChanger
<1> QED BY <1>3, <1>4, <1>5, <1>6, <1>7, <1>8 DEF LifeInv

LEMMA PutCheckGoSafe ==
    ASSUME LifeInv, NEW p \in Procs, PutCheck(p), inited
    PROVE  LifeInv'
<1>0. ProcShape
  BY DEF LifeInv
<1>1. /\ Only(p) /\ proc'[p].call = proc[p].call /\ proc'[p].ctx = proc[p].ctx /\ proc'[p].at = "free"
      /\ DOMAIN proc'[p] = {"call", "at", "ctx"} /\ proc[p].call \in Calls /\ proc[p].call # "none"
      /\ past \subseteq past' /\ proc[p].at = "check" /\ inited /\ (mounted => {"putmounted"} \in past')
      /\ module' = module /\ dev' = dev /\ choices' = choices /\ mounted' = mounted
      /\ inited' = inited /\ env' = env /\ ctxs' = ctxs /\ sysvars' = sysvars /\ memo' = memo /\ made' = made
  BY <1>0, AtMoves DEF PutCheck, rtvars, envvars
<1>2. /\ NoRace' => NoRace
      /\ Safe' => Safe
      /\ Serial' => Serial
      /\ {"unmounted"} \notin past' => {"unmounted"} \notin past
      /\ \A t \in Tools : {"ran", t} \in past => {"ran", t} \in past'
      /\ {"halfloaded"} \in past => {"halfloaded"} \in past'
  BY <1>1 DEF Safe, NoRace, Serial
<1>3. ProcShape' /\ CtxShape'
  BY <1>1, ToolNames DEF LifeInv, ProcShape, ProcOK, CtxShape, Only, Active, Calls, NoCall
<1>4. TakerAlone' /\ OneChanger'
  BY <1>0, <1>1, CallersKept DEF LifeInv
<1>5. EnvAlive'
  <2> SUFFICES ASSUME Safe' PROVE Up' /\ \A q \in Procs : Finds(q)'
    BY DEF EnvAlive
  <2>1. Up /\ (\A q \in Procs : Finds(q)) /\ NoRace /\ NoRace'
    BY <1>2 DEF LifeInv, EnvAlive, Safe
  <2>2. \A q \in Procs : Active(q) /\ q # p => proc[q].call \notin Takers /\ proc[q].at \notin {"root", "check", "free", "clear"}
    BY <1>0, <1>1, <1>4, <2>1, ToolNames, OthersTakeNot DEF LifeInv, Active
  <2>3. Up'
    BY <1>1, <2>1, <2>2 DEF Up, Finds, Where, Active, Only, Alive
  <2>4. Finds(p)'
    BY <1>1, <2>1, <2>2 DEF Safe, Up, Finds, Where, Active, Alive
  <2>5. ASSUME NEW q \in Procs, q # p PROVE Finds(q)'
    BY <1>1, <2>1, <2>2, <2>5 DEF Finds, Where, Active, Only, Alive
  <2> QED BY <2>3, <2>4, <2>5
<1>6. Owned'
  BY <1>1, <1>2 DEF LifeInv, Owned, GetsFd, Owns, Alive, Only
<1>7. RanBefore' /\ HalfLoaded'
  BY <1>1, <1>2 DEF LifeInv, RanBefore, HalfLoaded
<1>8. Stages'
  <2>1. proc[p].call \in Changers
    BY <1>0, <1>1, Places DEF Takers, Changers
  <2>2. Serial => Stage(p)
    BY <2>1 DEF LifeInv, Stages
  <2>3. Serial => /\ proc'[p].call \in Changers => Stage(p)'
                  /\ proc'[p].call \notin Changers => Resting'
    BY <1>1, <2>1, <2>2 DEF Stage, Resting, Changers
  <2> QED BY <1>1, <1>2, <1>4, <2>1, <2>3, StagesChanger
<1> QED BY <1>3, <1>4, <1>5, <1>6, <1>7, <1>8 DEF LifeInv

LEMMA PutCheckEndSafe ==
    ASSUME LifeInv, NEW p \in Procs, PutCheck(p), ~inited
    PROVE  LifeInv'
<1>0. ProcShape
  BY DEF LifeInv
<1>1. /\ Only(p) /\ proc'[p] = NoCall /\ proc'[p].call = "none" /\ proc[p].call # "none"
      /\ past \subseteq past' /\ proc[p].at = "check" /\ ~inited /\ (proc[p].call = "mount" => {"unmounted"} \in past')
      /\ module' = module /\ dev' = dev /\ choices' = choices /\ mounted' = mounted
      /\ inited' = inited /\ env' = env /\ ctxs' = ctxs /\ sysvars' = sysvars /\ memo' = memo /\ made' = made
  BY <1>0, ReturnMoves DEF PutCheck, rtvars, envvars
<1>2. /\ NoRace' => NoRace
      /\ Safe' => Safe
      /\ Serial' => Serial
      /\ {"unmounted"} \notin past' => {"unmounted"} \notin past
      /\ \A t \in Tools : {"ran", t} \in past => {"ran", t} \in past'
      /\ {"halfloaded"} \in past => {"halfloaded"} \in past'
  BY <1>1 DEF Safe, NoRace, Serial
<1>3. ProcShape' /\ CtxShape'
  BY <1>1, ToolNames DEF LifeInv, ProcShape, ProcOK, CtxShape, Only, Active, Calls, NoCall
<1>4. TakerAlone' /\ OneChanger'
  BY <1>0, <1>1, CallersKept DEF LifeInv
<1>5. EnvAlive'
  <2> SUFFICES ASSUME Safe' PROVE Up' /\ \A q \in Procs : Finds(q)'
    BY DEF EnvAlive
  <2>1. Up /\ (\A q \in Procs : Finds(q)) /\ NoRace /\ NoRace'
    BY <1>2 DEF LifeInv, EnvAlive, Safe
  <2>2. \A q \in Procs : Active(q) /\ q # p => proc[q].call \notin Takers /\ proc[q].at \notin {"root", "check", "free", "clear"}
    BY <1>0, <1>1, <1>4, <2>1, ToolNames, OthersTakeNot DEF LifeInv, Active
  <2>3. Up'
    BY <1>1, <2>1, <2>2 DEF Up, Finds, Where, Active, Only, Alive
  <2>4. Finds(p)'
    BY <1>1, <2>1, <2>2 DEF Safe, Up, Finds, Where, Active, Alive
  <2>5. ASSUME NEW q \in Procs, q # p PROVE Finds(q)'
    BY <1>1, <2>1, <2>2, <2>5 DEF Finds, Where, Active, Only, Alive
  <2> QED BY <2>3, <2>4, <2>5
<1>6. Owned'
  BY <1>1, <1>2 DEF LifeInv, Owned, GetsFd, Owns, Alive, Only
<1>7. RanBefore' /\ HalfLoaded'
  BY <1>1, <1>2 DEF LifeInv, RanBefore, HalfLoaded
<1>8. Stages'
  <2>1. proc[p].call \in Changers
    BY <1>0, <1>1, Places DEF Takers, Changers
  <2>2. Serial => Stage(p)
    BY <2>1 DEF LifeInv, Stages
  <2>3. Serial => /\ proc'[p].call \in Changers => Stage(p)'
                  /\ proc'[p].call \notin Changers => Resting'
    BY <1>1, <2>1, <2>2 DEF Stage, Resting, Changers
  <2> QED BY <1>1, <1>2, <1>4, <2>1, <2>3, StagesChanger
<1> QED BY <1>3, <1>4, <1>5, <1>6, <1>7, <1>8 DEF LifeInv

LEMMA UninitSafe ==
    ASSUME LifeInv, NEW p \in Procs, fsl_rt_uninit(p)
    PROVE  LifeInv'
<1>0. ProcShape
  BY DEF LifeInv
<1>1. /\ Only(p) /\ proc'[p].call = proc[p].call /\ proc'[p].ctx = proc[p].ctx /\ proc'[p].at = "clear"
      /\ DOMAIN proc'[p] = {"call", "at", "ctx"} /\ proc[p].call \in Calls /\ proc[p].call # "none"
      /\ past \subseteq past' /\ proc[p].at = "free"
      /\ module' = module /\ dev' = dev /\ choices' = choices /\ mounted' = mounted
      /\ inited' = inited /\ env' = env /\ ctxs' = [c \in DOMAIN ctxs \ {env} |-> ctxs[c]] /\ sysvars' = sysvars /\ memo' = memo /\ made' = made
  BY <1>0, AtMoves DEF fsl_rt_uninit, rtvars, envvars
<1>2. /\ NoRace' => NoRace
      /\ Safe' => Safe
      /\ Serial' => Serial
      /\ {"unmounted"} \notin past' => {"unmounted"} \notin past
      /\ \A t \in Tools : {"ran", t} \in past => {"ran", t} \in past'
      /\ {"halfloaded"} \in past => {"halfloaded"} \in past'
  BY <1>1 DEF Safe, NoRace, Serial
<1>3. ProcShape' /\ CtxShape'
  BY <1>1, ToolNames DEF LifeInv, ProcShape, ProcOK, CtxShape, Only, Active, Calls, NoCall
<1>4. TakerAlone' /\ OneChanger'
  BY <1>0, <1>1, CallersKept DEF LifeInv
<1>5. EnvAlive'
  <2> SUFFICES ASSUME Safe' PROVE Up' /\ \A q \in Procs : Finds(q)'
    BY DEF EnvAlive
  <2>1. Up /\ (\A q \in Procs : Finds(q)) /\ NoRace /\ NoRace'
    BY <1>2 DEF LifeInv, EnvAlive, Safe
  <2>2. \A q \in Procs : Active(q) /\ q # p => proc[q].call \notin Takers /\ proc[q].at \notin {"root", "check", "free", "clear"}
    BY <1>0, <1>1, <1>4, <2>1, ToolNames, OthersTakeNot DEF LifeInv, Active
  <2>3. Up'
    BY <1>1, <2>1, <2>2 DEF Up, Finds, Where, Active, Only, Alive
  <2>4. Finds(p)'
    BY <1>1, <2>1, <2>2 DEF Safe, Up, Finds, Where, Active, Alive
  <2>5. ASSUME NEW q \in Procs, q # p PROVE Finds(q)'
    <3>1. ~Active(q)
      BY <1>0, <1>1, <2>1, <2>5, Places DEF LifeInv, TakerAlone, Active
    <3> QED BY <1>1, <2>5, <3>1 DEF Finds, Where, Active, Only
  <2> QED BY <2>3, <2>4, <2>5
<1>6. Owned'
  BY <1>1, <1>2 DEF LifeInv, Owned, GetsFd, Owns, Alive, Only
<1>7. RanBefore' /\ HalfLoaded'
  BY <1>1, <1>2 DEF LifeInv, RanBefore, HalfLoaded
<1>8. Stages'
  <2>1. proc[p].call \in Changers
    BY <1>0, <1>1, Places DEF Takers, Changers
  <2>2. Serial => Stage(p)
    BY <2>1 DEF LifeInv, Stages
  <2>3. Serial => /\ proc'[p].call \in Changers => Stage(p)'
                  /\ proc'[p].call \notin Changers => Resting'
    BY <1>1, <2>1, <2>2 DEF Stage, Resting, Changers
  <2> QED BY <1>1, <1>2, <1>4, <2>1, <2>3, StagesChanger
<1> QED BY <1>3, <1>4, <1>5, <1>6, <1>7, <1>8 DEF LifeInv

LEMMA ClearInitedSafe ==
    ASSUME LifeInv, NEW p \in Procs, ClearInited(p)
    PROVE  LifeInv'
<1>0. ProcShape
  BY DEF LifeInv
<1>1. /\ Only(p) /\ proc'[p] = NoCall /\ proc'[p].call = "none" /\ proc[p].call # "none"
      /\ past \subseteq past' /\ proc[p].at = "clear"
      /\ module' = module /\ dev' = dev /\ choices' = choices /\ mounted' = mounted
      /\ inited' = FALSE /\ env' = env /\ ctxs' = ctxs /\ sysvars' = sysvars /\ memo' = memo /\ made' = made
  BY <1>0, ReturnMoves DEF ClearInited, rtvars, envvars
<1>2. /\ NoRace' => NoRace
      /\ Safe' => Safe
      /\ Serial' => Serial
      /\ {"unmounted"} \notin past' => {"unmounted"} \notin past
      /\ \A t \in Tools : {"ran", t} \in past => {"ran", t} \in past'
      /\ {"halfloaded"} \in past => {"halfloaded"} \in past'
  BY <1>1 DEF Safe, NoRace, Serial
<1>3. ProcShape' /\ CtxShape'
  BY <1>1, ToolNames DEF LifeInv, ProcShape, ProcOK, CtxShape, Only, Active, Calls, NoCall
<1>4. TakerAlone' /\ OneChanger'
  BY <1>0, <1>1, CallersKept DEF LifeInv
<1>5. EnvAlive'
  <2> SUFFICES ASSUME Safe' PROVE Up' /\ \A q \in Procs : Finds(q)'
    BY DEF EnvAlive
  <2>1. Up /\ (\A q \in Procs : Finds(q)) /\ NoRace /\ NoRace'
    BY <1>2 DEF LifeInv, EnvAlive, Safe
  <2>2. \A q \in Procs : Active(q) /\ q # p => proc[q].call \notin Takers /\ proc[q].at \notin {"root", "check", "free", "clear"}
    BY <1>0, <1>1, <1>4, <2>1, ToolNames, OthersTakeNot DEF LifeInv, Active
  <2>3. Up'
    BY <1>1, <2>1, <2>2 DEF Up, Finds, Where, Active, Only, Alive
  <2>4. Finds(p)'
    BY <1>1, <2>1, <2>2 DEF Safe, Up, Finds, Where, Active, Alive
  <2>5. ASSUME NEW q \in Procs, q # p PROVE Finds(q)'
    BY <1>1, <2>1, <2>2, <2>5 DEF Finds, Where, Active, Only, Alive
  <2> QED BY <2>3, <2>4, <2>5
<1>6. Owned'
  BY <1>1, <1>2 DEF LifeInv, Owned, GetsFd, Owns, Alive, Only
<1>7. RanBefore' /\ HalfLoaded'
  BY <1>1, <1>2 DEF LifeInv, RanBefore, HalfLoaded
<1>8. Stages'
  <2>1. proc[p].call \in Changers
    BY <1>0, <1>1, Places DEF Takers, Changers
  <2>2. Serial => Stage(p)
    BY <2>1 DEF LifeInv, Stages
  <2>3. Serial => /\ proc'[p].call \in Changers => Stage(p)'
                  /\ proc'[p].call \notin Changers => Resting'
    BY <1>1, <2>1, <2>2 DEF Stage, Resting, Changers
  <2> QED BY <1>1, <1>2, <1>4, <2>1, <2>3, StagesChanger
<1> QED BY <1>3, <1>4, <1>5, <1>6, <1>7, <1>8 DEF LifeInv

LEMMA AccessUseSafe ==
    ASSUME LifeInv, NEW p \in Procs, AccessUse(p)
    PROVE  LifeInv'
<1>0. ProcShape
  BY DEF LifeInv
<1>1. /\ Only(p) /\ proc'[p] = NoCall /\ proc'[p].call = "none" /\ proc[p].call # "none"
      /\ past \subseteq past' /\ proc[p].call = "access" /\ proc[p].at = "use"
      /\ module' = module /\ dev' = dev /\ choices' = choices /\ mounted' = mounted
      /\ inited' = inited /\ env' = env /\ ctxs' = ctxs /\ sysvars' = sysvars /\ memo' = memo /\ made' = made
  BY <1>0, ReturnMoves, Places DEF AccessUse, rtvars, envvars
<1>2. /\ NoRace' => NoRace
      /\ Safe' => Safe
      /\ Serial' => Serial
      /\ {"unmounted"} \notin past' => {"unmounted"} \notin past
      /\ \A t \in Tools : {"ran", t} \in past => {"ran", t} \in past'
      /\ {"halfloaded"} \in past => {"halfloaded"} \in past'
  BY <1>1 DEF Safe, NoRace, Serial
<1>3. ProcShape' /\ CtxShape'
  BY <1>1, ToolNames DEF LifeInv, ProcShape, ProcOK, CtxShape, Only, Active, Calls, NoCall
<1>4. TakerAlone' /\ OneChanger'
  BY <1>0, <1>1, CallersKept DEF LifeInv
<1>5. EnvAlive'
  <2> SUFFICES ASSUME Safe' PROVE Up' /\ \A q \in Procs : Finds(q)'
    BY DEF EnvAlive
  <2>1. Up /\ (\A q \in Procs : Finds(q)) /\ NoRace /\ NoRace'
    BY <1>2 DEF LifeInv, EnvAlive, Safe
  <2>2. \A q \in Procs : Active(q) /\ q # p => proc[q].call \notin Takers /\ proc[q].at \notin {"root", "check", "free", "clear"}
    BY <1>0, <1>1, <1>4, <2>1, ToolNames, OthersTakeNot DEF LifeInv, Active
  <2>3. Up'
    BY <1>1, <2>1, <2>2 DEF Up, Finds, Where, Active, Only, Alive
  <2>4. Finds(p)'
    BY <1>1, <2>1, <2>2 DEF Safe, Up, Finds, Where, Active, Alive
  <2>5. ASSUME NEW q \in Procs, q # p PROVE Finds(q)'
    BY <1>1, <2>1, <2>2, <2>5 DEF Finds, Where, Active, Only, Alive
  <2> QED BY <2>3, <2>4, <2>5
<1>6. Owned'
  BY <1>1, <1>2 DEF LifeInv, Owned, GetsFd, Owns, Alive, Only
<1>7. RanBefore' /\ HalfLoaded'
  BY <1>1, <1>2 DEF LifeInv, RanBefore, HalfLoaded
<1>8. Stages'
  BY <1>0, <1>1, <1>2, ToolNames, StagesOther DEF LifeInv, Changers, envvars
<1> QED BY <1>3, <1>4, <1>5, <1>6, <1>7, <1>8 DEF LifeInv

LEMMA AllocFailSafe ==
    ASSUME LifeInv, NEW p \in Procs, fsl_io_alloc(p), Return(p), UNCHANGED <<ctxs, made, sysvars>>
    PROVE  LifeInv'
<1>0. ProcShape
  BY DEF LifeInv
<1>1. /\ Only(p) /\ proc'[p] = NoCall /\ proc'[p].call = "none" /\ proc[p].call # "none"
      /\ past \subseteq past' /\ proc[p].at = "alloc"
      /\ module' = module /\ dev' = dev /\ choices' = choices /\ mounted' = mounted
      /\ inited' = inited /\ env' = env /\ ctxs' = ctxs /\ sysvars' = sysvars /\ memo' = memo /\ made' = made
  BY <1>0, ReturnMoves DEF fsl_io_alloc, rtvars, envvars
<1>2. /\ NoRace' => NoRace
      /\ Safe' => Safe
      /\ Serial' => Serial
      /\ {"unmounted"} \notin past' => {"unmounted"} \notin past
      /\ \A t \in Tools : {"ran", t} \in past => {"ran", t} \in past'
      /\ {"halfloaded"} \in past => {"halfloaded"} \in past'
  BY <1>1 DEF Safe, NoRace, Serial
<1>3. ProcShape' /\ CtxShape'
  BY <1>1, ToolNames DEF LifeInv, ProcShape, ProcOK, CtxShape, Only, Active, Calls, NoCall
<1>4. TakerAlone' /\ OneChanger'
  BY <1>0, <1>1, CallersKept DEF LifeInv
<1>5. EnvAlive'
  <2> SUFFICES ASSUME Safe' PROVE Up' /\ \A q \in Procs : Finds(q)'
    BY DEF EnvAlive
  <2>1. Up /\ (\A q \in Procs : Finds(q)) /\ NoRace /\ NoRace'
    BY <1>2 DEF LifeInv, EnvAlive, Safe
  <2>2. \A q \in Procs : Active(q) /\ q # p => proc[q].call \notin Takers /\ proc[q].at \notin {"root", "check", "free", "clear"}
    BY <1>0, <1>1, <1>4, <2>1, ToolNames, OthersTakeNot DEF LifeInv, Active
  <2>3. Up'
    BY <1>1, <2>1, <2>2 DEF Up, Finds, Where, Active, Only, Alive
  <2>4. Finds(p)'
    BY <1>1, <2>1, <2>2 DEF Safe, Up, Finds, Where, Active, Alive
  <2>5. ASSUME NEW q \in Procs, q # p PROVE Finds(q)'
    BY <1>1, <2>1, <2>2, <2>5 DEF Finds, Where, Active, Only, Alive
  <2> QED BY <2>3, <2>4, <2>5
<1>6. Owned'
  BY <1>1, <1>2 DEF LifeInv, Owned, GetsFd, Owns, Alive, Only
<1>7. RanBefore' /\ HalfLoaded'
  BY <1>1, <1>2 DEF LifeInv, RanBefore, HalfLoaded
<1>8. Stages'
  <2>1. proc[p].call \in Changers
    BY <1>0, <1>1, Places DEF Takers, Changers
  <2>2. Serial => Stage(p)
    BY <2>1 DEF LifeInv, Stages
  <2>3. Serial => /\ proc'[p].call \in Changers => Stage(p)'
                  /\ proc'[p].call \notin Changers => Resting'
    BY <1>1, <2>1, <2>2 DEF Stage, Resting, Changers
  <2> QED BY <1>1, <1>2, <1>4, <2>1, <2>3, StagesChanger
<1> QED BY <1>3, <1>4, <1>5, <1>6, <1>7, <1>8 DEF LifeInv

LEMMA AllocMoves ==
    ASSUME LifeInv, NEW p \in Procs, fsl_io_alloc(p), made' = made + 1
    PROVE  /\ Only(p) /\ proc'[p].call = proc[p].call /\ proc'[p].ctx = made + 1 /\ proc'[p].at = "env"
           /\ DOMAIN proc'[p] = {"call", "at", "ctx"} /\ proc[p].call # "none" /\ proc[p].at = "alloc"
           /\ proc[p].call \in {"get", "mount"} /\ past' = past
           /\ module' = module /\ dev' = dev /\ choices' = choices /\ mounted' = mounted
           /\ inited' = inited /\ env' = env /\ memo' = memo /\ sysvars' = made + 1 /\ made' = made + 1
           /\ made + 1 \notin DOMAIN ctxs /\ env # made + 1 /\ made \in Nat
           /\ DOMAIN ctxs' = DOMAIN ctxs \union {made + 1} /\ \A c \in DOMAIN ctxs : ctxs'[c] = ctxs[c]
           /\ proc[p].call = "get" => ctxs'[made + 1] = "fd"
<1>1. made \in Nat /\ env \in 0 .. made /\ DOMAIN ctxs \subseteq 1 .. made /\ ProcShape
  BY DEF LifeInv, CtxShape
<1>2. /\ proc[p].call # "none" /\ proc[p].at = "alloc" /\ past' = past
      /\ module' = module /\ dev' = dev /\ choices' = choices /\ mounted' = mounted
      /\ inited' = inited /\ env' = env /\ memo' = memo
  BY DEF fsl_io_alloc, rtvars
<1>3. /\ sysvars' = made + 1
      /\ ctxs' = [c \in DOMAIN ctxs \union {made + 1} |->
                     IF c # made + 1 THEN ctxs[c] ELSE IF proc[p].call = "get" THEN "fd" ELSE "bdev"]
      /\ proc' = [proc EXCEPT ![p].at = "env", ![p].ctx = made + 1]
  BY <1>1 DEF fsl_io_alloc
<1>4. made + 1 \notin DOMAIN ctxs /\ env # made + 1
  BY <1>1
<1>5. DOMAIN ctxs' = DOMAIN ctxs \union {made + 1} /\ (\A c \in DOMAIN ctxs : ctxs'[c] = ctxs[c])
      /\ (proc[p].call = "get" => ctxs'[made + 1] = "fd")
  BY <1>3, <1>4
<1>6. DOMAIN proc = Procs /\ DOMAIN proc[p] = {"call", "at", "ctx"} /\ proc[p].call \in {"get", "mount"}
  BY <1>1, <1>2, Places DEF ProcShape, ProcOK, NoCall
<1>7. /\ Only(p) /\ proc'[p].call = proc[p].call /\ proc'[p].ctx = made + 1 /\ proc'[p].at = "env"
      /\ DOMAIN proc'[p] = {"call", "at", "ctx"}
  BY <1>3, <1>6 DEF Only
<1> QED BY <1>1, <1>2, <1>3, <1>4, <1>5, <1>6, <1>7

LEMMA AllocDoneSafe ==
    ASSUME LifeInv, NEW p \in Procs, fsl_io_alloc(p), made' = made + 1
    PROVE  LifeInv'
<1>0. ProcShape
  BY DEF LifeInv
<1>1. /\ Only(p) /\ proc'[p].call = proc[p].call /\ proc'[p].ctx = made + 1 /\ proc'[p].at = "env"
      /\ DOMAIN proc'[p] = {"call", "at", "ctx"} /\ proc[p].call # "none" /\ proc[p].at = "alloc"
      /\ proc[p].call \in {"get", "mount"} /\ past \subseteq past'
      /\ module' = module /\ dev' = dev /\ choices' = choices /\ mounted' = mounted
      /\ inited' = inited /\ env' = env /\ memo' = memo /\ sysvars' = made + 1 /\ made' = made + 1
      /\ made + 1 \notin DOMAIN ctxs /\ env # made + 1 /\ made \in Nat
      /\ DOMAIN ctxs' = DOMAIN ctxs \union {made + 1} /\ \A c \in DOMAIN ctxs : ctxs'[c] = ctxs[c]
      /\ proc[p].call = "get" => ctxs'[made + 1] = "fd"
  BY <1>0, AllocMoves
<1>2. /\ NoRace' => NoRace
      /\ Safe' => Safe
      /\ Serial' => Serial
      /\ {"unmounted"} \notin past' => {"unmounted"} \notin past
      /\ \A t \in Tools : {"ran", t} \in past => {"ran", t} \in past'
      /\ {"halfloaded"} \in past => {"halfloaded"} \in past'
  BY <1>1 DEF Safe, NoRace, Serial
<1>3. ProcShape' /\ CtxShape'
  BY <1>1, ToolNames DEF LifeInv, ProcShape, ProcOK, CtxShape, Only, Active, Calls, NoCall
<1>4. TakerAlone' /\ OneChanger'
  BY <1>0, <1>1, CallersKept DEF LifeInv
<1>5. EnvAlive'
  <2> SUFFICES ASSUME Safe' PROVE Up' /\ \A q \in Procs : Finds(q)'
    BY DEF EnvAlive
  <2>1. Up /\ (\A q \in Procs : Finds(q)) /\ NoRace /\ NoRace'
    BY <1>2 DEF LifeInv, EnvAlive, Safe
  <2>2. \A q \in Procs : Active(q) /\ q # p => proc[q].call \notin Takers /\ proc[q].at \notin {"root", "check", "free", "clear"}
    BY <1>0, <1>1, <1>4, <2>1, ToolNames, OthersTakeNot DEF LifeInv, Active
  <2>3. Up'
    BY <1>1, <2>1, <2>2 DEF Up, Finds, Where, Active, Only, Alive
  <2>4. Finds(p)'
    BY <1>1, <2>1, <2>2 DEF Safe, Up, Finds, Where, Active, Alive
  <2>5. ASSUME NEW q \in Procs, q # p PROVE Finds(q)'
    BY <1>1, <2>1, <2>2, <2>5 DEF Finds, Where, Active, Only, Alive
  <2> QED BY <2>3, <2>4, <2>5
<1>6. Owned'
  <2>1. \A q \in Procs : q # p /\ proc[q].call = "get" => proc[q].ctx # made + 1
    BY <1>1 DEF LifeInv, CtxShape, Active
  <2>2. \A q \in Procs : GetsFd(q)'
    BY <1>1, <2>1 DEF LifeInv, Owned, GetsFd, Alive, Only
  <2>3. \A q \in Procs : Owns(q) => Owns(q)'
    BY <1>1 DEF Owns, Only
  <2>4. Alive(env)' => Alive(env) /\ ctxs'[env] = ctxs[env]
    BY <1>1 DEF Alive
  <2> QED BY <1>1, <1>2, <2>2, <2>3, <2>4 DEF LifeInv, Owned
<1>7. RanBefore' /\ HalfLoaded'
  BY <1>1, <1>2 DEF LifeInv, RanBefore, HalfLoaded
<1>8. Stages'
  <2>1. proc[p].call \in Changers
    BY <1>0, <1>1, Places DEF Takers, Changers
  <2>2. Serial => Stage(p)
    BY <2>1 DEF LifeInv, Stages
  <2>3. Serial => /\ proc'[p].call \in Changers => Stage(p)'
                  /\ proc'[p].call \notin Changers => Resting'
    BY <1>1, <2>1, <2>2 DEF Stage, Resting, Changers
  <2> QED BY <1>1, <1>2, <1>4, <2>1, <2>3, StagesChanger
<1> QED BY <1>3, <1>4, <1>5, <1>6, <1>7, <1>8 DEF LifeInv

LEMMA MountedSafe ==
    ASSUME LifeInv, NEW p \in Procs, fsl_fill_super(p), mounted' = TRUE, Return(p)
    PROVE  LifeInv'
<1>0. ProcShape
  BY DEF LifeInv
<1>1. /\ Only(p) /\ proc'[p] = NoCall /\ proc'[p].call = "none" /\ proc[p].call # "none"
      /\ past \subseteq past' /\ proc[p].at = "root" /\ proc[p].call = "mount"
      /\ module' = module /\ dev' = dev /\ choices' = choices /\ mounted' = TRUE
      /\ inited' = inited /\ env' = env /\ ctxs' = ctxs /\ sysvars' = sysvars /\ memo' = memo /\ made' = made
  BY <1>0, ReturnMoves DEF fsl_fill_super, rtvars, envvars
<1>2. /\ NoRace' => NoRace
      /\ Safe' => Safe
      /\ Serial' => Serial
      /\ {"unmounted"} \notin past' => {"unmounted"} \notin past
      /\ \A t \in Tools : {"ran", t} \in past => {"ran", t} \in past'
      /\ {"halfloaded"} \in past => {"halfloaded"} \in past'
  BY <1>1 DEF Safe, NoRace, Serial
<1>3. ProcShape' /\ CtxShape'
  BY <1>1, ToolNames DEF LifeInv, ProcShape, ProcOK, CtxShape, Only, Active, Calls, NoCall
<1>4. TakerAlone' /\ OneChanger'
  BY <1>0, <1>1, CallersKept DEF LifeInv
<1>5. EnvAlive'
  <2> SUFFICES ASSUME Safe' PROVE Up' /\ \A q \in Procs : Finds(q)'
    BY DEF EnvAlive
  <2>1. Up /\ (\A q \in Procs : Finds(q)) /\ NoRace /\ NoRace'
    BY <1>2 DEF LifeInv, EnvAlive, Safe
  <2>2. \A q \in Procs : Active(q) /\ q # p => proc[q].call \notin Takers /\ proc[q].at \notin {"root", "check", "free", "clear"}
    BY <1>0, <1>1, <1>4, <2>1, ToolNames, OthersTakeNot DEF LifeInv, Active
  <2>3. Up'
    BY <1>1, <2>1, <2>2 DEF Up, Finds, Where, Active, Only, Alive
  <2>4. Finds(p)'
    BY <1>1, <2>1, <2>2 DEF Safe, Up, Finds, Where, Active, Alive
  <2>5. ASSUME NEW q \in Procs, q # p PROVE Finds(q)'
    BY <1>1, <2>1, <2>2, <2>5 DEF Finds, Where, Active, Only, Alive
  <2> QED BY <2>3, <2>4, <2>5
<1>6. Owned'
  BY <1>1, <1>2 DEF LifeInv, Owned, GetsFd, Owns, Alive, Only
<1>7. RanBefore' /\ HalfLoaded'
  BY <1>1, <1>2 DEF LifeInv, RanBefore, HalfLoaded
<1>8. Stages'
  <2>1. proc[p].call \in Changers
    BY <1>0, <1>1, Places DEF Takers, Changers
  <2>2. Serial => Stage(p)
    BY <2>1 DEF LifeInv, Stages
  <2>3. Serial => /\ proc'[p].call \in Changers => Stage(p)'
                  /\ proc'[p].call \notin Changers => Resting'
    BY <1>1, <2>1, <2>2 DEF Stage, Resting, Changers
  <2> QED BY <1>1, <1>2, <1>4, <2>1, <2>3, StagesChanger
<1> QED BY <1>3, <1>4, <1>5, <1>6, <1>7, <1>8 DEF LifeInv

LEMMA MountFailedSafe ==
    ASSUME LifeInv, NEW p \in Procs, fsl_fill_super(p), UNCHANGED mounted, At(p, "check")
    PROVE  LifeInv'
<1>0. ProcShape
  BY DEF LifeInv
<1>1. /\ Only(p) /\ proc'[p].call = proc[p].call /\ proc'[p].ctx = proc[p].ctx /\ proc'[p].at = "check"
      /\ DOMAIN proc'[p] = {"call", "at", "ctx"} /\ proc[p].call \in Calls /\ proc[p].call # "none"
      /\ past \subseteq past' /\ proc[p].at = "root" /\ proc[p].call = "mount"
      /\ module' = module /\ dev' = dev /\ choices' = choices /\ mounted' = mounted
      /\ inited' = inited /\ env' = env /\ ctxs' = ctxs /\ sysvars' = sysvars /\ memo' = memo /\ made' = made
  BY <1>0, AtMoves DEF fsl_fill_super, rtvars, envvars
<1>2. /\ NoRace' => NoRace
      /\ Safe' => Safe
      /\ Serial' => Serial
      /\ {"unmounted"} \notin past' => {"unmounted"} \notin past
      /\ \A t \in Tools : {"ran", t} \in past => {"ran", t} \in past'
      /\ {"halfloaded"} \in past => {"halfloaded"} \in past'
  BY <1>1 DEF Safe, NoRace, Serial
<1>3. ProcShape' /\ CtxShape'
  BY <1>1, ToolNames DEF LifeInv, ProcShape, ProcOK, CtxShape, Only, Active, Calls, NoCall
<1>4. TakerAlone' /\ OneChanger'
  BY <1>0, <1>1, CallersKept DEF LifeInv
<1>5. EnvAlive'
  <2> SUFFICES ASSUME Safe' PROVE Up' /\ \A q \in Procs : Finds(q)'
    BY DEF EnvAlive
  <2>1. Up /\ (\A q \in Procs : Finds(q)) /\ NoRace /\ NoRace'
    BY <1>2 DEF LifeInv, EnvAlive, Safe
  <2>2. \A q \in Procs : Active(q) /\ q # p => proc[q].call \notin Takers /\ proc[q].at \notin {"root", "check", "free", "clear"}
    BY <1>0, <1>1, <1>4, <2>1, ToolNames, OthersTakeNot DEF LifeInv, Active
  <2>3. Up'
    BY <1>1, <2>1, <2>2 DEF Up, Finds, Where, Active, Only, Alive
  <2>4. Finds(p)'
    BY <1>1, <2>1, <2>2 DEF Safe, Up, Finds, Where, Active, Alive
  <2>5. ASSUME NEW q \in Procs, q # p PROVE Finds(q)'
    BY <1>1, <2>1, <2>2, <2>5 DEF Finds, Where, Active, Only, Alive
  <2> QED BY <2>3, <2>4, <2>5
<1>6. Owned'
  BY <1>1, <1>2 DEF LifeInv, Owned, GetsFd, Owns, Alive, Only
<1>7. RanBefore' /\ HalfLoaded'
  BY <1>1, <1>2 DEF LifeInv, RanBefore, HalfLoaded
<1>8. Stages'
  <2>1. proc[p].call \in Changers
    BY <1>0, <1>1, Places DEF Takers, Changers
  <2>2. Serial => Stage(p)
    BY <2>1 DEF LifeInv, Stages
  <2>3. Serial => /\ proc'[p].call \in Changers => Stage(p)'
                  /\ proc'[p].call \notin Changers => Resting'
    BY <1>1, <2>1, <2>2 DEF Stage, Resting, Changers
  <2> QED BY <1>1, <1>2, <1>4, <2>1, <2>3, StagesChanger
<1> QED BY <1>3, <1>4, <1>5, <1>6, <1>7, <1>8 DEF LifeInv

LEMMA MountLeftSafe ==
    ASSUME LifeInv, NEW p \in Procs, fsl_fill_super(p), UNCHANGED mounted, Return(p)
    PROVE  LifeInv'
<1>0. ProcShape
  BY DEF LifeInv
<1>1. /\ Only(p) /\ proc'[p] = NoCall /\ proc'[p].call = "none" /\ proc[p].call # "none"
      /\ past \subseteq past' /\ proc[p].at = "root" /\ proc[p].call = "mount"
      /\ (~mounted => {"unmounted"} \in past')
      /\ module' = module /\ dev' = dev /\ choices' = choices /\ mounted' = mounted
      /\ inited' = inited /\ env' = env /\ ctxs' = ctxs /\ sysvars' = sysvars /\ memo' = memo /\ made' = made
  BY <1>0, ReturnMoves DEF fsl_fill_super, rtvars, envvars
<1>2. /\ NoRace' => NoRace
      /\ Safe' => Safe
      /\ Serial' => Serial
      /\ {"unmounted"} \notin past' => {"unmounted"} \notin past
      /\ \A t \in Tools : {"ran", t} \in past => {"ran", t} \in past'
      /\ {"halfloaded"} \in past => {"halfloaded"} \in past'
  BY <1>1 DEF Safe, NoRace, Serial
<1>3. ProcShape' /\ CtxShape'
  BY <1>1, ToolNames DEF LifeInv, ProcShape, ProcOK, CtxShape, Only, Active, Calls, NoCall
<1>4. TakerAlone' /\ OneChanger'
  BY <1>0, <1>1, CallersKept DEF LifeInv
<1>5. EnvAlive'
  <2> SUFFICES ASSUME Safe' PROVE Up' /\ \A q \in Procs : Finds(q)'
    BY DEF EnvAlive
  <2>1. Up /\ (\A q \in Procs : Finds(q)) /\ NoRace /\ NoRace'
    BY <1>2 DEF LifeInv, EnvAlive, Safe
  <2>2. \A q \in Procs : Active(q) /\ q # p => proc[q].call \notin Takers /\ proc[q].at \notin {"root", "check", "free", "clear"}
    BY <1>0, <1>1, <1>4, <2>1, ToolNames, OthersTakeNot DEF LifeInv, Active
  <2>3. Up'
    BY <1>1, <2>1, <2>2 DEF Up, Finds, Where, Active, Only, Alive
  <2>4. Finds(p)'
    BY <1>1, <2>1, <2>2 DEF Safe, Up, Finds, Where, Active, Alive
  <2>5. ASSUME NEW q \in Procs, q # p PROVE Finds(q)'
    BY <1>1, <2>1, <2>2, <2>5 DEF Finds, Where, Active, Only, Alive
  <2> QED BY <2>3, <2>4, <2>5
<1>6. Owned'
  BY <1>1, <1>2 DEF LifeInv, Owned, GetsFd, Owns, Alive, Only
<1>7. RanBefore' /\ HalfLoaded'
  BY <1>1, <1>2 DEF LifeInv, RanBefore, HalfLoaded
<1>8. Stages'
  <2>1. proc[p].call \in Changers
    BY <1>0, <1>1, Places DEF Takers, Changers
  <2>2. Serial => Stage(p)
    BY <2>1 DEF LifeInv, Stages
  <2>3. Serial => /\ proc'[p].call \in Changers => Stage(p)'
                  /\ proc'[p].call \notin Changers => Resting'
    BY <1>1, <2>1, <2>2 DEF Stage, Resting, Changers
  <2> QED BY <1>1, <1>2, <1>4, <2>1, <2>3, StagesChanger
<1> QED BY <1>3, <1>4, <1>5, <1>6, <1>7, <1>8 DEF LifeInv

LEMMA ToolRunSafe ==
    ASSUME LifeInv, NEW p \in Procs, ToolRun(p)
    PROVE  LifeInv'
<1>0. ProcShape
  BY DEF LifeInv
<1>1. /\ Only(p) /\ proc'[p].call = proc[p].call /\ proc'[p].ctx = proc[p].ctx /\ proc'[p].at = "end"
      /\ DOMAIN proc'[p] = {"call", "at", "ctx"} /\ proc[p].call \in Calls /\ proc[p].call # "none"
      /\ past \subseteq past' /\ proc[p].call \in Tools /\ proc[p].at = "run"
      /\ module' = module /\ dev' = dev /\ mounted' = mounted
      /\ choices' = [choices EXCEPT ![proc[p].call] = IF @ = "null" THEN "live" ELSE @]
      /\ inited' = inited /\ env' = env /\ ctxs' = ctxs /\ sysvars' = sysvars /\ memo' = memo /\ made' = made
  BY <1>0, ToolNames, AtMoves DEF ToolRun, rtvars, envvars
<1>2. /\ NoRace' => NoRace
      /\ Safe' => Safe
      /\ Serial' => Serial
      /\ {"unmounted"} \notin past' => {"unmounted"} \notin past
      /\ \A t \in Tools : {"ran", t} \in past => {"ran", t} \in past'
      /\ {"halfloaded"} \in past => {"halfloaded"} \in past'
  BY <1>1 DEF Safe, NoRace, Serial
<1>3. ProcShape' /\ CtxShape'
  BY <1>1, ToolNames DEF LifeInv, ProcShape, ProcOK, CtxShape, Only, Active, Calls, NoCall
<1>4. TakerAlone' /\ OneChanger'
  BY <1>0, <1>1, CallersKept DEF LifeInv
<1>5. EnvAlive'
  <2> SUFFICES ASSUME Safe' PROVE Up' /\ \A q \in Procs : Finds(q)'
    BY DEF EnvAlive
  <2>1. Up /\ (\A q \in Procs : Finds(q)) /\ NoRace /\ NoRace'
    BY <1>2 DEF LifeInv, EnvAlive, Safe
  <2>2. \A q \in Procs : Active(q) /\ q # p => proc[q].call \notin Takers /\ proc[q].at \notin {"root", "check", "free", "clear"}
    BY <1>0, <1>1, <1>4, <2>1, ToolNames, OthersTakeNot DEF LifeInv, Active
  <2>3. Up'
    BY <1>1, <2>1, <2>2 DEF Up, Finds, Where, Active, Only, Alive
  <2>4. Finds(p)'
    BY <1>1, <2>1, <2>2 DEF Safe, Up, Finds, Where, Active, Alive
  <2>5. ASSUME NEW q \in Procs, q # p PROVE Finds(q)'
    BY <1>1, <2>1, <2>2, <2>5 DEF Finds, Where, Active, Only, Alive
  <2> QED BY <2>3, <2>4, <2>5
<1>6. Owned'
  BY <1>1, <1>2 DEF LifeInv, Owned, GetsFd, Owns, Alive, Only
<1>7. RanBefore' /\ HalfLoaded'
  BY <1>1, <1>2 DEF LifeInv, RanBefore, HalfLoaded
<1>8. Stages'
  BY <1>1, <1>2, ToolNames, StagesOther DEF LifeInv, Changers, envvars
<1> QED BY <1>3, <1>4, <1>5, <1>6, <1>7, <1>8 DEF LifeInv

LEMMA ToolEndSafe ==
    ASSUME LifeInv, NEW p \in Procs, ToolEnd(p)
    PROVE  LifeInv'
<1>0. ProcShape
  BY DEF LifeInv
<1>1. /\ Only(p) /\ proc'[p] = NoCall /\ proc'[p].call = "none" /\ proc[p].call # "none"
      /\ past \subseteq past' /\ proc[p].call \in Tools /\ proc[p].at \in {"run", "end"}
      /\ (choices[proc[p].call] = "live" => {"ran", proc[p].call} \in past')
      /\ module' = module /\ dev' = dev /\ mounted' = mounted
      /\ choices' = [choices EXCEPT ![proc[p].call] = IF @ = "live" THEN "freed" ELSE @]
      /\ inited' = inited /\ env' = env /\ ctxs' = ctxs /\ sysvars' = sysvars /\ memo' = memo /\ made' = made
  BY <1>0, ToolNames, ReturnMoves DEF ToolEnd, rtvars, envvars
<1>2. /\ NoRace' => NoRace
      /\ Safe' => Safe
      /\ Serial' => Serial
      /\ {"unmounted"} \notin past' => {"unmounted"} \notin past
      /\ \A t \in Tools : {"ran", t} \in past => {"ran", t} \in past'
      /\ {"halfloaded"} \in past => {"halfloaded"} \in past'
  BY <1>1 DEF Safe, NoRace, Serial
<1>3. ProcShape' /\ CtxShape'
  BY <1>1, ToolNames DEF LifeInv, ProcShape, ProcOK, CtxShape, Only, Active, Calls, NoCall
<1>4. TakerAlone' /\ OneChanger'
  BY <1>0, <1>1, CallersKept DEF LifeInv
<1>5. EnvAlive'
  <2> SUFFICES ASSUME Safe' PROVE Up' /\ \A q \in Procs : Finds(q)'
    BY DEF EnvAlive
  <2>1. Up /\ (\A q \in Procs : Finds(q)) /\ NoRace /\ NoRace'
    BY <1>2 DEF LifeInv, EnvAlive, Safe
  <2>2. \A q \in Procs : Active(q) /\ q # p => proc[q].call \notin Takers /\ proc[q].at \notin {"root", "check", "free", "clear"}
    BY <1>0, <1>1, <1>4, <2>1, ToolNames, OthersTakeNot DEF LifeInv, Active
  <2>3. Up'
    BY <1>1, <2>1, <2>2 DEF Up, Finds, Where, Active, Only, Alive
  <2>4. Finds(p)'
    BY <1>1, <2>1, <2>2 DEF Safe, Up, Finds, Where, Active, Alive
  <2>5. ASSUME NEW q \in Procs, q # p PROVE Finds(q)'
    BY <1>1, <2>1, <2>2, <2>5 DEF Finds, Where, Active, Only, Alive
  <2> QED BY <2>3, <2>4, <2>5
<1>6. Owned'
  BY <1>1, <1>2 DEF LifeInv, Owned, GetsFd, Owns, Alive, Only
<1>7. RanBefore' /\ HalfLoaded'
  BY <1>1, <1>2 DEF LifeInv, RanBefore, HalfLoaded
<1>8. Stages'
  BY <1>0, <1>1, <1>2, ToolNames, StagesOther DEF LifeInv, Changers, envvars
<1> QED BY <1>3, <1>4, <1>5, <1>6, <1>7, <1>8 DEF LifeInv
(* Steps that change no process: loading, unmounting, and no step at all.  *)
LEMMA StillSafe ==
    ASSUME LifeInv, proc' = proc, UNCHANGED envvars, choices' = choices, past \subseteq past',
           mounted' => mounted, mounted /\ ~mounted' => {"unmounted"} \in past',
           module' = "out" /\ dev' => {"halfloaded"} \in past' \/ (module = "out" /\ dev)
    PROVE  LifeInv'
<1>1. /\ NoRace' => NoRace
      /\ Safe' => Safe
      /\ Serial' => Serial
  BY DEF Safe, NoRace, Serial
<1>2. inited' = inited /\ env' = env /\ ctxs' = ctxs /\ sysvars' = sysvars /\ memo' = memo /\ made' = made
  BY DEF envvars
<1>3. ProcShape' /\ CtxShape'
  BY <1>2 DEF LifeInv, ProcShape, CtxShape, Active
<1>4. TakerAlone' /\ OneChanger'
  BY <1>1 DEF LifeInv, TakerAlone, OneChanger, Active
<1>5. EnvAlive'
  <2>1. \A p \in Procs : Finds(p) => Finds(p)'
    BY <1>2 DEF Finds, Where, Active, Alive
  <2>2. Up => Up'
    BY <1>2 DEF Up, Where, Active, Alive
  <2> QED BY <1>1, <2>1, <2>2 DEF LifeInv, EnvAlive
<1>6. Owned'
  BY <1>2 DEF LifeInv, Owned, GetsFd, Owns, Alive
<1>7. RanBefore' /\ HalfLoaded'
  BY DEF LifeInv, RanBefore, HalfLoaded
<1>8. Stages'
  <2>1. Resting' = Resting
    BY <1>2 DEF Resting
  <2>2. \A p \in Procs : Stage(p) => Stage(p)'
    BY <1>2, <2>1 DEF Stage
  <2> QED BY <1>1, <2>1, <2>2 DEF LifeInv, Stages
<1> QED BY <1>3, <1>4, <1>5, <1>6, <1>7, <1>8 DEF LifeInv

LEMMA LoadSafe ==
    ASSUME LifeInv, init_fsl_mod \/ open_gone
    PROVE  LifeInv'
<1>1. CASE init_fsl_mod
  <2>1. /\ proc' = proc /\ UNCHANGED envvars /\ choices' = choices /\ mounted' = mounted
        /\ past \subseteq past' /\ (module' = "out" => {"halfloaded"} \in past')
    BY <1>1 DEF init_fsl_mod
  <2> QED BY <2>1, StillSafe
<1>2. CASE open_gone
  <2>1. /\ proc' = proc /\ UNCHANGED envvars /\ choices' = choices /\ mounted' = mounted
        /\ past' = past /\ module' = module /\ dev' = dev
    BY <1>2 DEF open_gone, rtvars
  <2> QED BY <2>1, StillSafe
<1> QED BY <1>1, <1>2

LEMMA UmountSafe ==
    ASSUME LifeInv, NEW p \in Procs, umount(p)
    PROVE  LifeInv'
<1>1. /\ proc' = proc /\ UNCHANGED envvars /\ choices' = choices /\ ~mounted'
      /\ past \subseteq past' /\ {"unmounted"} \in past' /\ module' = module /\ dev' = dev
  BY DEF umount
<1> QED BY <1>1, StillSafe

(* Unloading ends everything but contexts that were lost before. *)
LEMMA ExitSafe ==
    ASSUME LifeInv, exit_fsl_mod
    PROVE  LifeInv'
<1>1. /\ proc' = proc /\ (\A p \in Procs : proc[p] = NoCall) /\ mounted' = FALSE /\ made' = made
      /\ module' = "out" /\ dev' = FALSE /\ inited' = FALSE /\ env' = 0
      /\ choices' = [t \in Tools |-> "null"] /\ past' = past \ ({{"ran", t} : t \in Tools})
      /\ ctxs' = IF inited THEN [c \in DOMAIN ctxs \ {env} |-> ctxs[c]] ELSE ctxs
  BY DEF exit_fsl_mod, Quiet
<1>2. \A p \in Procs : proc[p].call = "none"
  BY <1>1 DEF NoCall
<1>3. /\ made \in Nat /\ DOMAIN ctxs \subseteq 1 .. made /\ DOMAIN ctxs' \subseteq DOMAIN ctxs
      /\ (inited => DOMAIN ctxs' = DOMAIN ctxs \ {env}) /\ (~inited => ctxs' = ctxs)
  BY <1>1 DEF LifeInv, CtxShape
<1>4. ~Alive(0)'
  BY <1>3 DEF Alive
<1>5. ProcShape' /\ CtxShape'
  BY <1>1, <1>2, <1>3 DEF LifeInv, ProcShape, CtxShape, Active
<1>6. TakerAlone' /\ OneChanger' /\ EnvAlive' /\ Owned'
  BY <1>1, <1>2, <1>4 DEF TakerAlone, OneChanger, EnvAlive, Up, Finds, Where, Owned, GetsFd, Owns,
                          Active, Takers, Changers, Alive
<1>7. RanBefore' /\ HalfLoaded'
  BY <1>1 DEF RanBefore, HalfLoaded
<1>8. Stages'
  <2>1. ASSUME NEW s \in {{"init"}, {"put"}, {"init", "put"}}, NEW t \in Tools PROVE s # {"ran", t}
    OBVIOUS
  <2>2. Serial' => Serial
    BY <1>1, <2>1 DEF Serial
  <2>3. Serial => Resting
    BY <1>2 DEF LifeInv, Stages, Changers
  <2>4. Serial => DOMAIN ctxs' = {}
    BY <1>3, <2>3 DEF Resting
  <2> QED BY <1>1, <1>2, <2>2, <2>4 DEF Stages, Resting, Changers
<1> QED BY <1>5, <1>6, <1>7, <1>8 DEF LifeInv

LEMMA LifeStart ==
    ASSUME LifeInit
    PROVE  LifeInv /\ FaultsCaused
<1>1. /\ DOMAIN proc = Procs /\ \A p \in Procs : proc[p] = NoCall /\ proc[p].call = "none"
  BY DEF LifeInit, NoCall
<1>2. /\ DOMAIN ctxs = {} /\ ~inited /\ ~mounted /\ ~dev /\ env = 0 /\ made = 0 /\ past = {}
      /\ DOMAIN choices = Tools /\ (\A t \in Tools : choices[t] = "null") /\ faults = {}
  BY DEF LifeInit
<1>3. ProcShape /\ CtxShape
  BY <1>1, <1>2 DEF ProcShape, ProcOK, CtxShape, Active
<1>4. TakerAlone /\ OneChanger /\ EnvAlive /\ Owned
  BY <1>1, <1>2 DEF TakerAlone, OneChanger, EnvAlive, Up, Finds, Where, Owned, GetsFd, Owns,
                    Active, Takers, Changers, Alive
<1>5. RanBefore /\ HalfLoaded /\ Stages
  BY <1>1, <1>2 DEF RanBefore, HalfLoaded, Stages, Resting, Changers
<1> QED BY <1>2, <1>3, <1>4, <1>5 DEF LifeInv, FaultsCaused

LEMMA LifeNextSafe ==
    ASSUME LifeInv, LifeNext
    PROVE  LifeInv'
<1>1. CASE init_fsl_mod \/ exit_fsl_mod \/ open_gone
  BY <1>1, LoadSafe, ExitSafe
<1>2. ASSUME NEW p \in Procs,
             \/ InitCheck(p, "get") \/ InitCheck(p, "mount") \/ Refused(p) \/ SetEnv(p)
             \/ fsl_load_memo(p) \/ umount(p)
      PROVE  LifeInv'
  BY <1>2, InitCheckSafe, RefusedSafe, SetEnvSafe, LoadMemoSafe, UmountSafe
<1>3. ASSUME NEW p \in Procs, fsl_io_alloc(p) PROVE LifeInv'
  <2>1. \/ Return(p) /\ UNCHANGED <<ctxs, made, sysvars>>
        \/ made' = made + 1
    BY <1>3 DEF fsl_io_alloc
  <2> QED BY <1>3, <2>1, AllocFailSafe, AllocDoneSafe
<1>4. ASSUME NEW p \in Procs, SetInited(p) PROVE LifeInv'
  BY <1>4, SetInitedMountSafe, SetInitedGetSafe
<1>5. ASSUME NEW p \in Procs, fsl_fill_super(p) PROVE LifeInv'
  <2>1. \/ mounted' = TRUE /\ Return(p)
        \/ At(p, "check") /\ UNCHANGED mounted
        \/ Return(p) /\ UNCHANGED mounted
    BY <1>5 DEF fsl_fill_super
  <2> QED BY <1>5, <2>1, MountedSafe, MountFailedSafe, MountLeftSafe
<1>6. ASSUME NEW p \in Procs, Put(p) \/ PutCheck(p) \/ fsl_rt_uninit(p) \/ ClearInited(p)
      PROVE  LifeInv'
  BY <1>6, PutEnterSafe, PutCheckGoSafe, PutCheckEndSafe, UninitSafe, ClearInitedSafe
<1>7. ASSUME NEW p \in Procs,
             (\E t \in Tools : Tool(p, t)) \/ ToolRun(p) \/ ToolEnd(p) \/ Access(p) \/ AccessUse(p)
      PROVE  LifeInv'
  BY <1>7, ToolEnterSafe, ToolRunSafe, ToolEndSafe, AccessEnterSafe, AccessUseSafe
<1> QED BY <1>1, <1>2, <1>3, <1>4, <1>5, <1>6, <1>7 DEF LifeNext

-----------------------------------------------------------------------------
(* Faults. *)

(* Using the context by somebody the invariant says finds it alive. *)
LEMMA UseExplained ==
    ASSUME LifeInv, NEW p \in Procs, Where(p, {"memo", "flag", "root", "free", "run", "end", "use"})
    PROVE  /\ ~Alive(env) => {"putmounted"} \in past \/ \E r \in {"init", "put", "use"} : {"put", r} \in past
           /\ Alive(env) /\ ~HasDevice => {"unmounted"} \in past
<1>1. ~Alive(env) => ~Safe
  BY DEF LifeInv, EnvAlive, Finds
<1>2. Alive(env) /\ ~HasDevice => {"unmounted"} \in past
  BY DEF LifeInv, Owned, Owns, HasDevice
<1> QED BY <1>1, <1>2 DEF Safe, NoRace

LEMMA FaultsExplainedNext ==
    ASSUME LifeInv, LifeNext
    PROVE  FaultsCaused'
<1> DEFINE Freed == {"putmounted"} \in past \/ \E r \in {"init", "put", "use"} : {"put", r} \in past
<1>0. faults = {} /\ ProcShape
  BY DEF LifeNext, LifeInv
<1>1. CASE faults' = {}
  BY <1>1 DEF FaultsCaused
<1>2. CASE open_gone
  <2>1. faults' = {"nomodule"} /\ past' = past /\ {"halfloaded"} \in past
    BY <1>0, <1>2 DEF open_gone, LifeInv, HalfLoaded
  <2> QED BY <2>1 DEF FaultsCaused
<1>3. ASSUME NEW p \in Procs, fsl_load_memo(p) \/ fsl_fill_super(p) \/ fsl_rt_uninit(p)
      PROVE  FaultsCaused'
  <2>1. /\ faults' \subseteq (IF Alive(env) THEN {} ELSE {"freed"}) /\ past \subseteq past'
        /\ Where(p, {"memo", "root", "free"})
    BY <1>0, <1>3 DEF fsl_load_memo, fsl_fill_super, fsl_rt_uninit, Where, Active
  <2>2. "freed" \in faults' => Freed
    BY <2>1, UseExplained DEF Where
  <2> QED BY <2>1, <2>2 DEF FaultsCaused
<1>4. ASSUME NEW p \in Procs, ToolRun(p) \/ ToolEnd(p) \/ AccessUse(p)
      PROVE  FaultsCaused'
  <2>1. /\ past \subseteq past' /\ Where(p, {"run", "end", "use"})
        /\ faults' \subseteq UseFaults \union {"choices", "noinode"}
        /\ "choices" \in faults' => proc[p].call \in Tools /\ choices[proc[p].call] = "freed"
    <3>1. CASE ToolRun(p)
      <4>1. Where(p, {"run", "end", "use"}) /\ past' = past
        BY <3>1, ToolNames DEF ToolRun, Where, Active
      <4>2. faults' = UseFaults \union (IF choices[proc[p].call] = "freed" THEN {"choices"} ELSE {})
                      \union (IF Alive(env) /\ ctxs[env] = "bdev" THEN {"noinode"} ELSE {})
        BY <1>0, <3>1 DEF ToolRun
      <4>3. proc[p].call \in Tools
        BY <3>1 DEF ToolRun
      <4> QED BY <4>1, <4>2, <4>3 DEF UseFaults
    <3>2. CASE ToolEnd(p)
      <4>1. Where(p, {"run", "end", "use"}) /\ past \subseteq past'
        BY <3>2, ToolNames DEF ToolEnd, Where, Active
      <4>2. faults' = UseFaults \union (IF choices[proc[p].call] = "freed" THEN {"choices"} ELSE {})
        BY <1>0, <3>2 DEF ToolEnd
      <4>3. proc[p].call \in Tools
        BY <3>2 DEF ToolEnd
      <4> QED BY <4>1, <4>2, <4>3 DEF UseFaults
    <3>3. CASE AccessUse(p)
      <4>1. proc[p].call = "access" /\ past' = past /\ faults' = UseFaults
        BY <1>0, <3>3 DEF AccessUse
      <4>2. proc[p].at = "use"
        BY <1>0, <4>1, Places
      <4> QED BY <4>1, <4>2 DEF UseFaults, Where, Active
    <3> QED BY <1>4, <3>1, <3>2, <3>3
  <2>2. Where(p, {"memo", "flag", "root", "free", "run", "end", "use"})
    BY <2>1 DEF Where
  <2>3. "freed" \in faults' => Freed
    BY <2>1, <2>2, UseExplained DEF UseFaults
  <2>4. "nodevice" \in faults' => {"unmounted"} \in past
    BY <2>1, <2>2, UseExplained DEF UseFaults
  <2>5. "choices" \in faults' => \E t \in Tools : {"ran", t} \in past
    BY <2>1 DEF LifeInv, RanBefore
  <2>6. "nomodule" \notin faults'
    BY <2>1 DEF UseFaults
  <2> QED BY <2>1, <2>3, <2>4, <2>5, <2>6 DEF FaultsCaused
<1>5. CASE init_fsl_mod \/ exit_fsl_mod
  BY <1>0, <1>1, <1>5 DEF init_fsl_mod, exit_fsl_mod
<1>6. ASSUME NEW p \in Procs,
             \/ InitCheck(p, "get") \/ InitCheck(p, "mount") \/ Refused(p) \/ SetEnv(p) \/ umount(p)
             \/ fsl_io_alloc(p) \/ SetInited(p) \/ Put(p) \/ PutCheck(p) \/ ClearInited(p)
             \/ (\E t \in Tools : Tool(p, t)) \/ Access(p)
      PROVE  FaultsCaused'
  <2>1. faults' = faults
    BY <1>6 DEF InitCheck, Refused, SetEnv, umount, fsl_io_alloc, SetInited, Put, PutCheck,
                ClearInited, Tool, Access
  <2> QED BY <1>0, <1>1, <2>1
<1> QED BY <1>2, <1>3, <1>4, <1>5, <1>6 DEF LifeNext

(* Between calls, one after the other, the flag and the context agree. *)
LEMMA RestAgrees ==
    ASSUME LifeInv
    PROVE  StateAgrees
<1> SUFFICES ASSUME Quiet, Serial
             PROVE  /\ inited <=> Alive(env)
                    /\ DOMAIN ctxs \subseteq {env}
                    /\ inited => sysvars = env /\ memo = env
  BY DEF StateAgrees, Serial
<1>1. \A p \in Procs : proc[p].call \notin Changers
  BY DEF Quiet, NoCall, Changers
<1>2. Resting
  BY <1>1 DEF LifeInv, Stages
<1> QED BY <1>2 DEF Resting, Alive

(* The life of the kernel module (kernel/mod/rt.c, fsl_entry.c, super.c),  *)
(* for every number of processes and tools: a freed context, a block       *)
(* device that is gone, a freed choice cache and missing code are used     *)
(* only after the sequences of calls FaultsCaused names, and unless inits  *)
(* and puts ran at the same time, between calls is_inited says whether     *)
(* there is a context, which is then the only one.                         *)
THEOREM LifeSafety == Spec => []FaultsExplained
<1> DEFINE Inv == LifeInv /\ FaultsCaused
<1>1. Init => Inv
  BY LifeStart DEF Init
<1>2. Inv /\ [Next]_<<level, kiovars, lifevars>> => Inv'
  <2> SUFFICES ASSUME Inv, [Next]_<<level, kiovars, lifevars>> PROVE Inv'
    OBVIOUS
  <2>1. CASE LifeNext
    BY <2>1, LifeNextSafe, FaultsExplainedNext
  <2>2. CASE UNCHANGED lifevars
    <3>1. LifeInv'
      BY <2>2, StillSafe DEF lifevars, envvars
    <3>2. FaultsCaused'
      BY <2>2 DEF lifevars, FaultsCaused
    <3> QED BY <3>1, <3>2
  <2> QED BY <2>1, <2>2 DEF Next, LifeStep, IoStep
<1>3. Inv => FaultsExplained
  BY RestAgrees DEF FaultsExplained
<1> QED BY <1>1, <1>2, <1>3, PTL DEF Spec
=============================================================================
