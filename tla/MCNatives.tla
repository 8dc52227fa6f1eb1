----------------------------- MODULE MCNatives -----------------------------
EXTENDS Natives

Of(kind, parent) == [kind |-> kind, parent |-> parent]

\* A root with an attribute, an element that has another, and a text.
MCTexts == {<<Of("element", 0), Of("attribute", 1), Of("element", 1), Of("element", 3), Of("text", 1)>>}
=============================================================================
