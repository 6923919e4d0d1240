---------------------------- MODULE MCDeferFlow ----------------------------
EXTENDS DeferFlow

Loops == {"defer", "cleanup", "label", "goto", "return", "break", "continue", "block", "for", "do"}
Branches == {"defer", "cleanup", "label", "goto", "&&", "if", "else", "block"}
Vlas == {"vla", "defer", "label", "goto", "block", "for", "return"}
Switches == {"switch", "case", "if", "else", "block", "break", "defer", "return", "cleanup"}
MCMixes == {Loops, Branches, Vlas, Switches}

=============================================================================
