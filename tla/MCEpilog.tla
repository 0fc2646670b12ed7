------------------------------- MODULE MCEpilog -------------------------------
EXTENDS Epilog

CONSTANTS a, b, t1, t2, k

Log(format, args, pointer, level) ==
    [format |-> format, args |-> args, pointer |-> pointer, level |-> level]

Short == Log(<<"@">>, 1, FALSE, 16)
Long == Log(<<"@@", "@">>, 1, FALSE, 7)     \* "@" and the argument
Pointer == Log(<<"@">>, 1, TRUE, 12)
Empty == Log(<<>>, 0, FALSE, 7)
Warn == Log(<<>>, 0, FALSE, 12)
Misfit == Log(<<>>, 1, FALSE, 7)

\* Two threads of a program that prints, and may be muted.
Printing ==
    [calls |-> (a :> {"connect", "quit", "enable", "nest"}) @@ (b :> {}),
     threads |-> (a :> {t1, t2}) @@ (b :> {}), formats |-> {Short}, logs |-> 2,
     sessions |-> 2, file |-> TRUE, streams |-> {FALSE}, breaks |-> FALSE]

\* A program with a server.
Serving ==
    [Printing EXCEPT !.calls[a] = {"connect", "quit"}, !.threads[a] = {t1},
                     !.formats = {Long, Empty}, !.file = FALSE, !.streams = {TRUE}]

\* One that tells the server of its class; a log that is hidden then, and one that is not.
Defining ==
    [Serving EXCEPT !.calls[a] = {"connect", "define", "quit"}, !.formats = {Empty, Warn},
                    !.logs = 1]

\* Two, one of which does not quit.
Sharing ==
    [Serving EXCEPT !.calls[b] = {"connect"}, !.threads[b] = {t1},
                    !.formats = {Short}, !.sessions = 1]

\* One whose stream breaks, or whose thread throws.
Failing ==
    [Serving EXCEPT !.formats = {Pointer, Empty, Misfit}, !.sessions = 1, !.breaks = TRUE]

MCPlans == {Printing, Serving, Defining, Sharing, Failing}
MCCategoryOf == k :> "audio"
MCNone == <<>>
MCHide == <<"audio">>

\* What the theorem on hidden categories assumes of the options.
ASSUME HidingAssumption == HideTakesEffect
=============================================================================
