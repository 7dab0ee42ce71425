----------------------------- MODULE KernelLife -----------------------------
(***************************************************************************)
(* The life of the kernel module and of the runtime in it (kernel/mod/rt.c,*)
(* fsl_entry.c, super.c) under the calls of several processes: ioctls on   *)
(* /dev/fslctl, which fslcmd makes, mounts and accesses to the mounted     *)
(* file system.  Nothing is locked; a step is what runs between two places *)
(* where the code may sleep or be preempted and others see the difference. *)
(***************************************************************************)
EXTENDS Integers

CONSTANTS
    Procs,          \* processes
    Tools,          \* scatter, defrag, smush
    MaxCtx          \* contexts ever made, at most

VARIABLES
    module,         \* loaded: "out", "in"
    dev,            \* /dev/fslctl is registered
    inited, env,    \* is_inited, fsl_env: the context last set, 0 is NULL
    ctxs,           \* the contexts alive, and how each was made: "fd", "bdev"
    sysvars, memo,  \* the contexts __FROM_OS_* and the memo table were taken from
    made,           \* contexts made so far
    mounted,        \* a superblock exists
    choices,        \* ccache of each tool: "null", "live", "freed"
    proc,           \* what each process is doing
    past,           \* history for the properties: see Past
    faults          \* what went wrong in the kernel

lifevars == <<module, dev, inited, env, ctxs, sysvars, memo, made, mounted, choices, proc, past,
              faults>>
rtvars   == <<module, dev, choices, mounted>>
envvars  == <<inited, env, ctxs, sysvars, memo, made>>

(* Past: which kinds of calls ran at the same time (making a context,      *)
(* freeing one, using one; a mount may do all), and the events that make a *)
(* later call unsafe.                                                      *)
NoCall == [call |-> "none"]
Quiet == \A p \in Procs : proc[p] = NoCall
Role(c) ==
    CASE c = "get" -> {"init"} [] c = "put" -> {"put"} [] c = "none" -> {}
      [] c = "mount" -> {"init", "put"} [] OTHER -> {"use"}
Watched == {{"init"}, {"put"}, {"init", "put"}, {"put", "use"}}
Meets(c) ==
    {{a, b} : a \in Role(c), b \in UNION {Role(proc[q].call) : q \in Procs}} \intersect Watched

LifeInit ==
    /\ module = "out" /\ dev = FALSE /\ inited = FALSE /\ env = 0 /\ ctxs = <<>>
    /\ sysvars = 0 /\ memo = 0 /\ made = 0 /\ mounted = FALSE
    /\ choices = [t \in Tools |-> "null"] /\ proc = [p \in Procs |-> NoCall]
    /\ past = {} /\ faults = {}

At(p, where) == proc' = [proc EXCEPT ![p].at = where]
Return(p) == proc' = [proc EXCEPT ![p] = NoCall]
Alive(c) == c \in DOMAIN ctxs

Enter(p, c, where) ==
    /\ proc[p] = NoCall /\ module = "in"
    /\ proc' = [proc EXCEPT ![p] = [call |-> c, at |-> where, ctx |-> 0]]
    /\ past' = past \cup Meets(c)

-----------------------------------------------------------------------------
(* init_fsl_mod: when the file system cannot be registered the device      *)
(* stays.                                                                  *)
init_fsl_mod ==
    /\ module = "out" /\ ~dev
    /\ \/ module' = "in" /\ dev' = TRUE /\ UNCHANGED past
       \/ dev' = TRUE /\ past' = past \cup {{"halfloaded"}} /\ UNCHANGED module
    /\ UNCHANGED <<envvars, mounted, choices, proc, faults>>

(* exit_fsl_mod; the kernel allows it when no call runs and nothing is     *)
(* mounted.                                                                *)
exit_fsl_mod ==
    /\ module = "in" /\ Quiet /\ ~mounted
    /\ module' = "out" /\ dev' = FALSE
    /\ ctxs' = IF inited THEN [c \in DOMAIN ctxs \ {env} |-> ctxs[c]] ELSE ctxs
    /\ inited' = FALSE /\ env' = 0 /\ sysvars' = 0 /\ memo' = 0
    /\ choices' = [t \in Tools |-> "null"]
    /\ past' = past \ ({{"ran", t} : t \in Tools})
    /\ UNCHANGED <<made, mounted, proc, faults>>

(* A process opens a device whose module is gone. *)
open_gone ==
    /\ module = "out" /\ dev
    /\ faults' = faults \cup {"nomodule"}
    /\ UNCHANGED <<rtvars, envvars, proc, past>>

-----------------------------------------------------------------------------
(* kfsl_rt_init_fd and kfsl_rt_init_bdev. *)
InitCheck(p, c) ==
    /\ c = "mount" => ~mounted
    /\ Enter(p, c, IF inited THEN "busy" ELSE "alloc")
    /\ UNCHANGED <<rtvars, envvars, faults>>

(* -EBUSY, or a tool's -ENXIO. *)
Refused(p) ==
    /\ proc[p].call # "none" /\ proc[p].at = "busy"
    /\ Return(p)
    /\ UNCHANGED <<rtvars, envvars, past, faults>>

(* fsl_io_alloc_fd, fsl_io_alloc_bdev: -EBADF, or init_rt_io: -ENOMEM. *)
fsl_io_alloc(p) ==
    /\ proc[p].call # "none" /\ proc[p].at = "alloc"
    /\ \/ Return(p) /\ UNCHANGED <<ctxs, made, sysvars>>
       \/ /\ made < MaxCtx
          /\ made' = made + 1
          /\ ctxs' = [c \in DOMAIN ctxs \cup {made'} |->
                        IF c # made' THEN ctxs[c]
                        ELSE IF proc[p].call = "get" THEN "fd" ELSE "bdev"]
          /\ sysvars' = made'
          /\ proc' = [proc EXCEPT ![p].at = "env", ![p].ctx = made']
    /\ UNCHANGED <<rtvars, inited, env, memo, past, faults>>

SetEnv(p) ==
    /\ proc[p].call # "none" /\ proc[p].at = "env"
    /\ env' = proc[p].ctx /\ At(p, "memo")
    /\ UNCHANGED <<rtvars, inited, ctxs, sysvars, memo, made, past, faults>>

(* fsl_load_memo reads the device of whatever context is set by now. *)
fsl_load_memo(p) ==
    /\ proc[p].call # "none" /\ proc[p].at = "memo"
    /\ memo' = env
    /\ faults' = IF Alive(env) THEN faults ELSE faults \cup {"freed"}
    /\ At(p, "flag")
    /\ UNCHANGED <<rtvars, inited, env, ctxs, sysvars, made, past>>

SetInited(p) ==
    /\ proc[p].call # "none" /\ proc[p].at = "flag"
    /\ inited' = TRUE
    /\ IF proc[p].call = "mount" THEN At(p, "root") ELSE Return(p)
    /\ UNCHANGED <<rtvars, env, ctxs, sysvars, memo, made, past, faults>>

(* The rest of fsl_fill_super: a bad origin takes the runtime down again,  *)
(* a failed fsl_bridge_from_ti leaves it up.                               *)
fsl_fill_super(p) ==
    /\ proc[p].call = "mount" /\ proc[p].at = "root"
    /\ faults' = IF Alive(env) THEN faults ELSE faults \cup {"freed"}
    /\ \/ mounted' = TRUE /\ Return(p)
       \/ At(p, "check") /\ UNCHANGED mounted
       \/ Return(p) /\ UNCHANGED mounted
    /\ past' = IF proc'[p] = NoCall /\ ~mounted' THEN past \cup {{"unmounted"}} ELSE past
    /\ UNCHANGED <<module, dev, choices, envvars>>

(* kill_block_super: the block device goes, the runtime is not told. *)
umount(p) ==
    /\ mounted /\ module = "in" /\ proc[p] = NoCall
    /\ \A q \in Procs : proc[q].call # "access"
    /\ mounted' = FALSE
    /\ past' = past \cup {{"unmounted"}}
    /\ UNCHANGED <<module, dev, choices, envvars, proc, faults>>

-----------------------------------------------------------------------------
(* kfsl_rt_uninit: "put", or the end of a failed mount. *)
Put(p) ==
    /\ Enter(p, "put", "check")
    /\ UNCHANGED <<rtvars, envvars, faults>>

(* -ENXIO when another put was faster: a failed mount then leaves its      *)
(* context.                                                                *)
PutCheck(p) ==
    /\ proc[p].call # "none" /\ proc[p].at = "check"
    /\ IF inited THEN At(p, "free") ELSE Return(p)
    /\ past' = past \cup (IF inited /\ mounted THEN {{"putmounted"}} ELSE {})
                     \cup (IF ~inited /\ proc[p].call = "mount" THEN {{"unmounted"}} ELSE {})
    /\ UNCHANGED <<rtvars, envvars, faults>>

(* fsl_rt_uninit: no tool in the kernel sets fctx_exit_f. *)
fsl_rt_uninit(p) ==
    /\ proc[p].call # "none" /\ proc[p].at = "free"
    /\ faults' = IF Alive(env) THEN faults ELSE faults \cup {"freed"}
    /\ ctxs' = [c \in DOMAIN ctxs \ {env} |-> ctxs[c]]
    /\ At(p, "clear")
    /\ UNCHANGED <<rtvars, inited, env, sysvars, memo, made, past>>

\* Mutant: the flag stays.
PutKeepsFlag(p) ==
    /\ proc[p].call # "none" /\ proc[p].at = "clear"
    /\ Return(p)
    /\ UNCHANGED <<rtvars, envvars, past, faults>>

ClearInited(p) ==
    /\ proc[p].call # "none" /\ proc[p].at = "clear"
    /\ inited' = FALSE
    /\ Return(p)
    /\ UNCHANGED <<rtvars, env, ctxs, sysvars, memo, made, past, faults>>

-----------------------------------------------------------------------------
(* What using the context set by now does: the block device of a mount is  *)
(* the mount's.                                                            *)
HasDevice == ctxs[env] = "fd" \/ mounted \/ \E p \in Procs : proc[p].call = "mount"
UseFaults == (IF Alive(env) THEN {} ELSE {"freed"})
             \cup (IF Alive(env) /\ ~HasDevice THEN {"nodevice"} ELSE {})

(* fsl_ioctl_dotool: -ENXIO, or scatter_entry, defrag_entry, smush_entry.  *)
Tool(p, t) ==
    /\ Enter(p, t, IF inited THEN "run" ELSE "busy")
    /\ UNCHANGED <<rtvars, envvars, faults>>

(* The tool relocates something: ccache is made if it is NULL.  A write    *)
(* marks the buffer dirty for an inode that a mount does not have.         *)
ToolRun(p) ==
    LET t == proc[p].call
    IN  /\ t \in Tools /\ proc[p].at = "run"
        /\ faults' = faults \cup UseFaults
              \cup (IF choices[t] = "freed" THEN {"choices"} ELSE {})
              \cup (IF Alive(env) /\ ctxs[env] = "bdev" THEN {"noinode"} ELSE {})
        /\ choices' = [choices EXCEPT ![t] = IF @ = "null" THEN "live" ELSE @]
        /\ At(p, "end")
        /\ UNCHANGED <<module, dev, mounted, envvars, past>>

(* The end: ccache is freed, not reset; the scan used the context again.   *)
(* Also a tool that found nothing to relocate.                             *)
ToolEnd(p) ==
    LET t == proc[p].call
    IN  /\ t \in Tools /\ proc[p].at \in {"run", "end"}
        /\ faults' = faults \cup UseFaults
              \cup (IF choices[t] = "freed" THEN {"choices"} ELSE {})
        /\ choices' = [choices EXCEPT ![t] = IF @ = "live" THEN "freed" ELSE @]
        /\ past' = IF choices[t] = "live" THEN past \cup {{"ran", t}} ELSE past
        /\ Return(p)
        /\ UNCHANGED <<module, dev, mounted, envvars>>

(* Lookups and reads of the mounted file system. *)
Access(p) ==
    /\ mounted /\ Enter(p, "access", "use")
    /\ UNCHANGED <<rtvars, envvars, faults>>

AccessUse(p) ==
    /\ proc[p].call = "access"
    /\ faults' = faults \cup UseFaults
    /\ Return(p)
    /\ UNCHANGED <<rtvars, envvars, past>>

LifeNext ==
    /\ faults = {}
    /\ \/ init_fsl_mod \/ exit_fsl_mod \/ open_gone
       \/ \E p \in Procs :
            \/ InitCheck(p, "get") \/ InitCheck(p, "mount") \/ Refused(p) \/ fsl_io_alloc(p)
            \/ SetEnv(p) \/ fsl_load_memo(p) \/ SetInited(p) \/ fsl_fill_super(p) \/ umount(p)
            \/ Put(p) \/ PutCheck(p) \/ fsl_rt_uninit(p) \/ ClearInited(p)
            \/ (\E t \in Tools : Tool(p, t)) \/ ToolRun(p) \/ ToolEnd(p)
            \/ Access(p) \/ AccessUse(p)

-----------------------------------------------------------------------------
(* Everything that goes wrong has one of the causes nothing in the code    *)
(* rules out: a context is used after it was freed only when a put (or the *)
(* end of a failed mount) ran beside another call or while the file system *)
(* was mounted; a device that is gone only after an umount or a mount that *)
(* failed and left its context; a freed choice cache only in the second    *)
(* run of a tool; missing code only after a load that failed half-way.     *)
(* Calls made one after the other, with none of these, are safe.  (A tool  *)
(* that writes on a mount's context always fails: "noinode".)              *)
FaultsCaused ==
    /\ "freed" \in faults =>
          {"putmounted"} \in past \/ \E r \in {"init", "put", "use"} : {"put", r} \in past
    /\ "nodevice" \in faults => {"unmounted"} \in past
    /\ "choices" \in faults => \E t \in Tools : {"ran", t} \in past
    /\ "nomodule" \in faults => {"halfloaded"} \in past

(* Unless two inits, two puts or an init and a put ever ran at the same    *)
(* time: between calls the flag says whether there is a context, there is  *)
(* only that one, and the variables and the memo table were read from it.  *)
StateAgrees ==
    Quiet /\ faults = {} /\ {{"init"}, {"put"}, {"init", "put"}} \intersect past = {} =>
        /\ inited <=> Alive(env)
        /\ DOMAIN ctxs \subseteq {env}
        /\ inited => sysvars = env /\ memo = env
=============================================================================
