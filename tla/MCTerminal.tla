----------------------------- MODULE MCTerminal -----------------------------
EXTENDS Terminal

\* One word per case of submit and set_features; "+sqz ?" is a line whose
\* second token is refused, "tokens=0" a ceiling that may not be stored.
MCEditLines ==
    [w \in {"+sqz", "-sqz", "-sqz ?", "tokens=0", "tokens=5"} |->
        LET T(op, feature, value) == [op |-> op, feature |-> feature, value |-> value]
        IN  CASE w = "+sqz"     -> <<T("+", "Sqz", 0)>>
              [] w = "-sqz"     -> <<T("-", "Sqz", 0)>>
              [] w = "-sqz ?"   -> <<T("-", "Sqz", 0), T("?", "", 0)>>
              [] w = "tokens=0" -> <<T("tokens", "", 0)>>
              [] w = "tokens=5" -> <<T("tokens", "", 5)>>]

MCLines == {"", "back", "other", "advanced", "connected", "apply",
            "-sqz ?", "tokens=0", "tokens=5"}

MCProbe == {"Sqz"}
=============================================================================
