------------------------------- MODULE Trace -------------------------------
(***************************************************************************)
(* The traces of a tool's accesses (runtime/hits.c and runtime/temporal.c) *)
(* and the callbacks they hang on (fsl_io_hook), in the order main() of    *)
(* runtime/entry.c sets them up and takes them down.  Each tracer has one  *)
(* log for hits, one for misses and one for writes, kept only if its       *)
(* environment variable is set.                                            *)
(***************************************************************************)
EXTENDS Integers, FiniteSets, Sequences, SequencesExt

CONSTANTS
    Kinds,          \* IO_CB_CACHE_HIT, IO_CB_CACHE_MISS, IO_CB_WRITE
    HitBits,        \* HIT_BYTE_GRANULARITY, in bits
    ImageBits,      \* the length of the device, which stays as it is
    BlkBits,        \* st_blksize
    UintMod,        \* 2^32: numbers of the type unsigned int are modulo this
    LOG_BUF_ENTS,
    TraceAddrs,     \* bit addresses of accesses
    Leftovers,      \* what malloc leaves in a word
    MaxEvents

VARIABLES
    env,            \* the environment variables that are set: {<<tracer, kind>>}
    main_at,        \* the last call main() has made
    io_cb,          \* kind -> callback
    cb_prev,        \* ev_cb_prev, cl_cb_prev: <<tracer, kind>> -> callback
    ev_log,         \* kind -> the counters of hits.c
    was,            \* what a counter was when it was allocated
    cl_buf, cl_file,\* kind -> the buffer and the file of temporal.c
    dump,           \* kind -> the lines of the file hits.c writes
    seen,           \* kind -> the accesses there were
    strays          \* how many of them hits.c counted behind its table

trv == <<env, main_at, io_cb, cb_prev, ev_log, was, cl_buf, cl_file, dump, seen, strays>>

Null     == "NULL"
Identity == "fsl_io_cb_identity"
Tracers  == {"hits", "temporal"}
On(t, k) == <<t, k>> \in env

(* The size the runtime goes by has whole units of st_blksize only: the    *)
(* end of a device of another length is behind it, and can be accessed.    *)
fsl_io_size == (ImageBits \div BlkBits) * BlkBits
Lines       == fsl_io_size \div HitBits

(* byte_len, an unsigned int, is room for a counter of each line and one   *)
(* more, as long as that is fewer than 2^32 bytes.                         *)
byte_len == ((Lines + 1) * 8) % UintMod
Counters == 0 .. (byte_len \div 8) - 1

(* num_ents, an unsigned int too. *)
Dumped == 0 .. (Lines % UintMod) - 1

(* A cache line is filled from bytes the device has, or not at all. *)
WholeLine(a) == (a \div HitBits + 1) * HitBits <= ImageBits

TraceInit ==
    /\ env \in SUBSET (Tracers \X Kinds)
    /\ main_at = "fsl_rt_init"
    /\ io_cb = [k \in Kinds |-> Null] /\ cb_prev = [e \in Tracers \X Kinds |-> Null]
    /\ was \in Leftovers
    /\ ev_log = [k \in Kinds |-> [c \in Counters |-> 0]]
    /\ cl_buf = [k \in Kinds |-> <<>>] /\ cl_file = [k \in Kinds |-> <<>>]
    /\ dump = [k \in Kinds |-> {}] /\ seen = [k \in Kinds |-> <<>>] /\ strays = 0

(* fsl_io_hook, for the logs of one tracer that are asked for. *)
HookAll(t) ==
    /\ cb_prev' = [e \in Tracers \X Kinds |->
            IF e[1] = t /\ e \in env
            THEN IF io_cb[e[2]] = Null THEN Identity ELSE io_cb[e[2]]
            ELSE cb_prev[e]]
    /\ io_cb' = [k \in Kinds |-> IF On(t, k) THEN t ELSE io_cb[k]]

(* The counters are as malloc returns them. *)
fsl_hits_init ==
    /\ main_at = "fsl_rt_init" /\ main_at' = "fsl_hits_init"
    /\ HookAll("hits")
    /\ ev_log' = [k \in Kinds |-> IF On("hits", k) THEN [c \in Counters |-> was] ELSE ev_log[k]]
    /\ UNCHANGED <<env, was, cl_buf, cl_file, dump, seen, strays>>

fsl_temporal_init ==
    /\ main_at = "fsl_hits_init" /\ main_at' = "tool_entry"
    /\ HookAll("temporal")
    /\ UNCHANGED <<env, ev_log, was, cl_buf, cl_file, dump, seen, strays>>

-----------------------------------------------------------------------------
(* The mutant leaves the buffer full. *)
MutFlush(l) == [l EXCEPT !.file = @ \o l.buf]

log_flush(l) == [l EXCEPT !.file = @ \o l.buf, !.buf = <<>>]

log_update(l, a) ==
    LET m == [l EXCEPT !.buf = Append(@, a)] IN IF Len(m.buf) = LOG_BUF_ENTS THEN log_flush(m) ELSE m

(* DECL_CB of hits.c and of temporal.c; hits.c hands on the number of the  *)
(* line instead of the address, and looks not whether it has a counter.    *)
Count(s, c) ==
    IF c \in Counters THEN [s EXCEPT !.log[c] = @ + 1, !.addr = c]
    ELSE [s EXCEPT !.stray = TRUE, !.addr = c]
Callback(s, t) ==
    IF t = "hits" THEN Count(s, s.addr \div HitBits) ELSE [s EXCEPT !.l = log_update(@, s.addr)]

(* The callback of a kind and the one it calls; only two can be hooked. *)
Called(s, k) ==
    LET t == Callback(s, io_cb[k])
        p == cb_prev[<<io_cb[k], k>>]
    IN  IF io_cb[k] = Null THEN s ELSE IF p = Identity THEN t ELSE Callback(t, p)

Events == LET n(k) == Len(seen[k]) IN FoldLeft(LAMBDA s, k : s + n(k), 0, SetToSeq(Kinds))

(* ev_log[bit_addr]++ behind the table: the word belongs to a counter of   *)
(* some log, to nothing the traces are made of, or to anything else (then, *)
(* or if it is no memory at all, there is no telling how it goes on).      *)
Stray ==
    /\ strays' = strays + 1
    /\ \/ UNCHANGED <<main_at, ev_log>>
       \/ \E m \in Kinds, c \in Counters :
             /\ On("hits", m) /\ ev_log' = [ev_log EXCEPT ![m][c] = @ + 1]
             /\ UNCHANGED main_at
       \/ main_at' = "astray" /\ UNCHANGED ev_log

(* Reads fill a line first, which fails where there is none; a write calls *)
(* back before it is made, wherever it goes.                               *)
Access(k, a) ==
    LET s == Called([addr |-> a, log |-> ev_log[k], stray |-> FALSE,
                     l |-> [buf |-> cl_buf[k], file |-> cl_file[k]]], k)
    IN  /\ main_at = "tool_entry" /\ Events < MaxEvents
        /\ k # "write" => WholeLine(a)
        /\ IF s.stray THEN Stray
           ELSE ev_log' = [ev_log EXCEPT ![k] = s.log] /\ UNCHANGED <<main_at, strays>>
        /\ cl_buf' = [cl_buf EXCEPT ![k] = s.l.buf] /\ cl_file' = [cl_file EXCEPT ![k] = s.l.file]
        /\ seen' = [seen EXCEPT ![k] = Append(@, a)]
        /\ UNCHANGED <<env, io_cb, cb_prev, was, dump>>

-----------------------------------------------------------------------------
fsl_temporal_uninit ==
    /\ main_at = "tool_entry" /\ main_at' = "fsl_temporal_uninit"
    /\ LET l == [k \in Kinds |-> IF On("temporal", k)
                                 THEN log_flush([buf |-> cl_buf[k], file |-> cl_file[k]])
                                 ELSE [buf |-> cl_buf[k], file |-> cl_file[k]]]
       IN  /\ cl_buf' = [k \in Kinds |-> l[k].buf]
           /\ cl_file' = [k \in Kinds |-> l[k].file]
    /\ UNCHANGED <<env, io_cb, cb_prev, ev_log, was, dump, seen, strays>>

(* fsl_hits_dump: the counters that are not 0.  Of lines without a counter *)
(* the file has whatever is found where the counter would be.              *)
fsl_hits_dump(k, junk) ==
    LET at(c) == IF c \in Counters THEN ev_log[k][c] ELSE junk[c]
    IN  {<<c, at(c)>> : c \in {c \in Dumped : at(c) # 0}}

fsl_hits_uninit ==
    /\ main_at = "fsl_temporal_uninit" /\ main_at' = "fsl_hits_uninit"
    /\ \E junk \in [Dumped \ Counters -> Leftovers] :
          dump' = [k \in Kinds |-> IF On("hits", k) THEN fsl_hits_dump(k, junk) ELSE {}]
    /\ UNCHANGED <<env, io_cb, cb_prev, ev_log, was, cl_buf, cl_file, seen, strays>>

TraceNext ==
    \/ fsl_hits_init \/ fsl_temporal_init \/ fsl_temporal_uninit \/ fsl_hits_uninit
    \/ \E k \in Kinds, a \in TraceAddrs : Access(k, a)

-----------------------------------------------------------------------------
(* Through every filling and flushing of the buffer the file of temporal.c *)
(* gets each access once, in order, and nothing of what hits.c makes of    *)
(* the address; the buffer never overflows; and nothing stays in it.       *)
TraceExact ==
    \A k \in Kinds :
        /\ On("temporal", k) /\ main_at # "fsl_rt_init" => cl_file[k] \o cl_buf[k] = seen[k]
        /\ Len(cl_buf[k]) < LOG_BUF_ENTS
        /\ main_at = "fsl_hits_uninit" => cl_buf[k] = <<>>

InLine(k, c) == Cardinality({i \in 1 .. Len(seen[k]) : seen[k][i] \div HitBits = c})

(* The file of hits.c has, of the lines that have a counter, those with an *)
(* access or something malloc left, each once: with the accesses to it on  *)
(* top of what malloc left, whether or not the other tracer is on, and     *)
(* with no more on top than there were accesses that hits.c counted behind *)
(* its table; there were none if all accesses lay in lines with a counter. *)
Behind(k) == \E i \in 1 .. Len(seen[k]) : seen[k][i] \div HitBits \notin Counters

HitsExact ==
    /\ strays # 0 <=> \E k \in Kinds : On("hits", k) /\ Behind(k)
    /\ main_at = "fsl_hits_uninit" =>
        \A k \in Kinds : On("hits", k) => \A c \in Counters \intersect Dumped :
            LET n    == was + InLine(k, c)
                line == {e \in dump[k] : e[1] = c}
            IN  \E v \in n .. n + strays : line = IF v = 0 THEN {} ELSE {<<c, v>>}
=============================================================================
