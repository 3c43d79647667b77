----------------------------- MODULE MCSettings -----------------------------
\* Settings for TLC: the brightness and the HDMI switch with their defaults.
EXTENDS Settings, TLC

CONSTANTS t1, t2, brightness, hdmi

MCAllowed == brightness :> {2, 20} @@ hdmi :> {0, 1}
MCDefault == brightness :> 81 @@ hdmi :> 0

\* system.ini is missing, or has the section of the settings.
WithControl == {Torn} \cup {[Empty EXCEPT !.secs = {"control"} \cup o] : o \in {{}, {"other"}}}
=============================================================================
