---------------------------- MODULE MCEfivarTool ----------------------------
(***************************************************************************)
(* An instance of EfivarTool for TLC: a short name, a longer one and one   *)
(* that is not ASCII; data of lengths around the limits of the formats.    *)
(***************************************************************************)
EXTENDS EfivarTool, TLC

CONSTANTS short, longer, wide

MCChars == short :> 1 @@ longer :> 4 @@ wide :> 4

MCWide == {wide}

MCAttrs == {"nv", "bs"}

V(at, d) == [attrs |-> at, data |-> d]

MCValues == {V("nv", <<1>>), V("bs", <<1, 1, 1, 1>>)}

MCInitialStores ==
    {[n \in Names |-> IF n \in MCWide \cup {short, longer} THEN v ELSE Missing] :
        v \in MCValues \cup {Missing}}

Cmd(acts, name, in, out, from, at, fmt) ==
    [acts |-> acts, name |-> name, in |-> in, out |-> out, from |-> from,
     attrs |-> at, fmt |-> fmt]

\* A variable as a library client has it.
Var(n, au, app, d) == [name |-> n, append |-> app, attrs |-> "nv", auth |-> au, data |-> d]

Both(v1, v2, fmt) ==
    [recs |-> <<Exported(v1, fmt), Exported(v2, fmt)>>, len |-> Needed(v1, fmt) + Needed(v2, fmt)]

Damaged(f) == [f EXCEPT !.recs[1].good = FALSE]

Cut(f) == [f EXCEPT !.len = @ - 1]

GoodFiles ==
    {FileOf(Var(short, "none", TRUE, <<2>>), "dmpstore"),
     FileOf(Var(longer, "header", FALSE, <<2>>), "native"),
     FileOf(Var(longer, "signed", TRUE, <<2>>), "native"),
     Both(Var(short, "none", FALSE, <<2>>), Var(wide, "none", FALSE, <<2, 2>>), "dmpstore"),
     Both(Var(longer, "none", FALSE, <<2>>), Var(longer, "none", FALSE, <<2, 2>>), "native")}

MCInitialFiles ==
    {[p |-> f, q |-> NoFile] : f \in GoodFiles
        \cup {Damaged(f) : f \in GoodFiles} \cup {Cut(f) : f \in GoodFiles} \cup {NoFile}}

Exports ==
    {Cmd({"export"}, n, None, "p", None, "nv", f) : n \in {short, longer, wide}, f \in {"native", "dmpstore"}}
        \cup {Cmd({"export"}, longer, None, "p", <<2, 2>>, at, "dmpstore") : at \in {"bs", Zero}}

Edits ==
    {Cmd({act}, short, None, None, <<2>>, at, "native") :
        act \in {"write", "append"}, at \in {"nv", Zero}}

Imports ==
    {Cmd({"import"}, n, "p", None, f, "nv", "native") : n \in {None, longer}, f \in {None, <<>>}}
        \cup {Cmd({"import", "export"}, None, "p", o, None, "nv", f) :
                o \in {"p", "q"}, f \in {"native", "dmpstore"}}
        \cup {Cmd({d}, None, "p", None, None, "nv", "native") : d \in {"restore", "walk"}}

Others ==
    {Cmd({"print", "dec"}, short, None, None, None, "nv", "native"),
     Cmd({"write"}, short, None, None, <<>>, "nv", "native"),
     Cmd({"list"}, None, None, None, None, "nv", "native"),
     Cmd({"list", "write"}, short, None, None, None, "nv", "native")}

MCCommands == Exports \cup Edits \cup Imports \cup Others
=============================================================================
