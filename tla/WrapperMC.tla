----------------------------- MODULE WrapperMC -----------------------------
EXTENDS Wrapper

CONSTANTS a, b

\* Statement i leaves a value that shows which statement computed it, and from what.
MCApply(i, v) == (3 * v + i + 1) % 11
MCValues == 0 .. 10

\* Up to the numbering of the cells.
MCStarts == {f \in [{a, b} -> Cells \cup {Absent}] : f[a] # 2}

SplitAndKept(h) == {h[x] : x \in DOMAIN h} = {"split", "kept"}
Sets(x, y) == [dst |-> x, src |-> y]

\* One name feeds the other, both are written, and one is only read.
Codes == {<<Sets(a, a), Sets(b, a)>>, <<Sets(a, b), Sets(b, b)>>, <<Sets(a, b), Sets(a, a)>>}

\* Every pair of classes but one in the lanes whose transfers are synchronous; and with queued transfers, a
\* routine that uses none of what they bring.
MCBindings ==
    [how : {h \in [{a, b} -> Classes] : ~SplitAndKept(h)}, code : Codes,
     lane : {"host", "offload", "icon_omp", "device"}]
    \cup
    [how : {h \in [{a, b} -> Classes] : h[a] \in {"global", "static", "kept"} /\ h[b] = "dummy"},
     code : {<<Sets(a, a), Sets(a, a)>>}, lane : {"icon_acc"}]
=============================================================================
