---------------------------- MODULE MCHomeRouting ----------------------------
EXTENDS HomeRouting

\* Every signal, and the pairs in which an earlier rule may give way.  The
\* forbidden words are found without the quotations of the text, with them, or both.
SomeTexts ==
  {{}} \cup {{s} : s \in Signals \ {"dated"}}
    \cup {{"forbidden", "verbatim"}, {"forbidden", "verbatim", "open"}, {"forbidden", "open"},
          {"forbidden", "quoted"}, {"verbatim", "quoted"}, {"verbatim", "unrelated"},
          {"action", "dated"}, {"open", "goal"}, {"unrelated", "goal"}, {"evaluation", "goal"},
          {"oneShot", "goal"}, {"veto", "goal"}}

\* learning-home.tsx clears the text or leads to the settings page.
WebClient == {"change_question", "configure_model"}

AllServers == {"ready", "unset", "admin"}
=============================================================================
