-------------------------------- MODULE Types --------------------------------
(***************************************************************************)
(* One client of the type_infos on one device: the FUSE browser, the       *)
(* browser, modify, the kernel's file system or a plain holder.  The       *)
(* variables of the others stay at their initial values.                   *)
(***************************************************************************)
EXTENDS FuseBrowser, Browser, Modify, KernelFs, Holder, TLC

VARIABLE client     \* who runs

fusev   == <<out>>
browv   == <<menus>>
modv    == <<req, found>>
kfsv    == <<files, pages, oops>>
vars == <<heap, nodes, held, client, fusev, browv, modv, kfsv>>

NoFuse == out = [op |-> "none"]
NoMenu == menus = "start"
NoMod  == req = <<"?">> /\ found = -1
NoKfs  == files = <<>> /\ pages = <<>> /\ oops = "none"

Init ==
    \/ client = "fuse" /\ FuseInit /\ NoMenu /\ NoMod /\ NoKfs
    \/ client = "browser" /\ BrowserInit /\ NoFuse /\ NoMod /\ NoKfs
    \/ client = "modify" /\ ModifyInit /\ NoFuse /\ NoMenu /\ NoKfs
    \/ client = "kernel" /\ KfsInit /\ NoFuse /\ NoMenu /\ NoMod
    \/ client = "holder" /\ HolderInit /\ NoFuse /\ NoMenu /\ NoMod /\ NoKfs

FuseStep == client = "fuse" /\ FuseNext /\ UNCHANGED <<client, browv, modv, kfsv>>
MenuStep == client = "browser" /\ BrowserNext /\ UNCHANGED <<client, fusev, modv, kfsv>>
ModStep  == client = "modify" /\ ModifyNext /\ UNCHANGED <<client, fusev, browv, kfsv>>
KfsStep  == client = "kernel" /\ KfsNext /\ UNCHANGED <<client, fusev, browv, modv>>
HoldStep == client = "holder" /\ HolderNext /\ UNCHANGED <<client, fusev, browv, modv, kfsv>>

Next == FuseStep \/ MenuStep \/ ModStep \/ KfsStep \/ HoldStep
Spec == Init /\ [][Next]_vars

-----------------------------------------------------------------------------
(* Every client, at rest: a count is exactly the references there are, so  *)
(* nothing is freed early and nothing stays behind.  Nothing that was      *)
(* freed is used: fsl_virt_unref_all reads a mapping after it gave a       *)
(* reference back, but never the last one.  No chain of type_infos names   *)
(* an object twice, whatever circles the device holds.  (The modify tool   *)
(* that looks into a virtual type frees what it does not own.)             *)
HeapSound ==
    /\ ~(client = "modify" /\ SeesVirt(req)) => RefsExact /\ NoUseAfterFree
    /\ ChainsSimple

(* What readdir lists can be opened under the name it is listed by, and is *)
(* then the object listed; a read returns a run of the bytes of the file,  *)
(* and a write goes to the bytes a read at the same place returns.  The    *)
(* browser ends by an assertion only for a number below what is no array   *)
(* and for a write longer than the write log holds (FuseBrowser).          *)
FuseExact ==
    client = "fuse" => ListedResolves /\ AbortsExplained /\ IoInFile

(* The number the printer puts before a member opens that member in the    *)
(* menu; the path that is printed is the menus the user will come back     *)
(* through, and names no object twice (Browser).                           *)
MenusAgree == client = "browser" => NumbersAgree /\ PathIsMenus

(* A path outside virtual types is found at the right place, without an    *)
(* abort and with nothing left behind (Modify).                            *)
ModifyExact == client = "modify" => FoundExact

(* However small the buffers, an open directory of the kernel file system  *)
(* gives out its entries in order, each exactly once; a page filled by a   *)
(* read from the start of a file holds the file, wherever it lies on the   *)
(* device (KernelFs).                                                      *)
KernelFiles == client = "kernel" => EmitsOnce /\ PagesExact

-----------------------------------------------------------------------------
(* The instance that is checked: a device of 16 bytes with one object of   *)
(* each troublesome kind: fields that are absent, empty, weak or off the   *)
(* device, garbage in ranges, an element named like a member or like a     *)
(* number, circles of two pointers, a virtual type inside a virtual type.  *)

F(nm, typ, off, sizes) ==
    [nm |-> nm, typ |-> typ, cond |-> TRUE, weak |-> FALSE, off |-> off, sizes |-> sizes]
P(nm, typ, min, offs) == [nm |-> nm, typ |-> typ, min |-> min, offs |-> offs]
VT(nm, typ, min, srcsz, bases) ==
    [nm |-> nm, typ |-> typ, min |-> min, srcsz |-> srcsz, bases |-> bases]

Sb == [ok |-> TRUE, size |-> 10, name |-> "",
       tf |-> <<F("n", "prim", 0, <<1>>), F("raw", "prim", 1, <<1, 1, 1>>),
                [F("hid", "Ent", 4, <<2>>) EXCEPT !.cond = FALSE], F("none", "Ent", 4, <<>>),
                F("one", "Ent", 4, <<2>>), F("pair", "Ent", 6, <<2, 2>>),
                F("bad", "Ent", 16, <<2>>),
                [F("alt", "prim", 4, <<1>>) EXCEPT !.weak = TRUE]>>,
       pt |-> <<P("ptr", "Ent", 0, <<8, 12, 14>>), P("", "Ent", 0, <<4>>),
                P("void", "Ent", 0, <<>>), P("back", "Sb", 0, <<0>>)>>,
       vt |-> <<VT("files", "Ent", 0, 2, <<8, 4>>), VT("late", "Ent", 1, 2, <<4, 14>>),
                VT("holes", "Ent", 0, 2, <<12, 8>>)>>]
Ent(name, peer, sub) ==
    [ok |-> TRUE, size |-> 2, name |-> name, tf |-> <<F("v", "prim", 0, <<1>>)>>,
     pt |-> <<P("up", "Sb", 0, <<0>>), P("peer", "Ent", 0, peer)>>,
     vt |-> <<VT("sub", "Leaf", 0, 1, sub)>>]
Leaf == [ok |-> TRUE, size |-> 1, name |-> "", tf |-> <<F("x", "prim", 0, <<1>>)>>,
         pt |-> <<>>, vt |-> <<>>]

mcContent ==
    (<<"Sb", 0>> :> Sb)
    @@ (<<"Ent", 4>> :> Ent("a", <<8>>, <<5, 13>>)) @@ (<<"Ent", 6>> :> Ent("v", <<>>, <<>>))
    @@ (<<"Ent", 8>> :> Ent("b", <<4>>, <<8, 9>>)) @@ (<<"Ent", 14>> :> Ent("1", <<>>, <<>>))
    @@ (<<"Leaf", 5>> :> Leaf) @@ (<<"Leaf", 9>> :> Leaf) @@ (<<"Leaf", 13>> :> Leaf)

mcNumber == ("0" :> 0) @@ ("1" :> 1) @@ ("2" :> 2) @@ ("3" :> 3)
mcPaths ==
    {<<>>, <<"n">>, <<"raw">>, <<"hid">>, <<"one">>, <<"one", "v">>, <<"pair">>, <<"pair", "1">>,
     <<"pair", "b">>, <<"pair", "v">>, <<"bad">>, <<"alt">>, <<"ptr">>, <<"ptr", "0">>,
     <<"ptr", "1">>, <<"ptr", "b">>, <<"void">>, <<"files">>, <<"files", "a">>,
     <<"files", "a", "v">>, <<"files", "1", "sub">>, <<"files", "1", "sub", "1", "x">>,
     <<"files", "0", "sub">>, <<"files", "0", "sub", "0">>, <<"late">>, <<"late", "a">>,
     <<"holes">>, <<"holes", "1", "v">>, <<"one", "peer">>, <<"one", "peer", "0", "peer", "0">>,
     <<"one", "1">>, <<"nosuch">>}

mcRequests ==
    {<<"n">>, <<"one", "v">>, <<"one">>, <<"pair", "v">>, <<"hid", "v">>, <<"bad", "v">>,
     <<"ptr", "v">>, <<"ptr", "peer", "v">>, <<"one", "peer", "v">>,
     <<"one", "peer", "peer", "v">>, <<"files[1]", "n">>, <<"files", "v">>, <<"one", "sub", "v">>,
     <<"alt">>, <<"nosuch">>, <<"void">>, <<"n", "v">>}
mcBare == ("files[1]" :> "files")

mcKNames == {"one", "v", "raw", "pair", "ptr", "files", "1", "b", "nosuch", "bad"}
mcHNames == {"files", "sub", "peer", "b"}
=============================================================================
