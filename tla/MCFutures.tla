----------------------------- MODULE MCFutures ------------------------------
EXTENDS Combine

Task(form, leaf, deadlines, good, cond) ==
  [form |-> form, leaf |-> leaf, deadline |-> deadlines, good |-> good, cond |-> cond,
   missed |-> "Burst", time |-> 2, signals |-> 0, rounds |-> 0]

T2 == <<TRUE, TRUE>>
T3 == <<TRUE, TRUE, TRUE>>
Values == {T3, <<TRUE, FALSE, TRUE>>, <<FALSE, TRUE, FALSE>>}
Waiting == <<"event", "sleep", "event">>

MCConfigs ==
  \* Events and a sleep, joined and selected; values that match or not.
  {Task(f, Waiting, <<0, 1, 0>>, g, T3) : f \in {"join", "try_join", "select", "biased"}, g \in Values}
  \cup {Task("select", Waiting, <<0, 1, 0>>, <<TRUE, FALSE, TRUE>>, c) : c \in Values \ {T3}}
  \* The loop of the documentation of select!, until a pinned sleep is over.
  \cup {[Task("select", Waiting, <<0, 2, 0>>, T3, T3) EXCEPT !.rounds = 1]}
  \* Deadlines that have passed, that pass, and that pass with the value's.
  \cup {[Task("timeout", <<v, "sleep">>, <<1, d>>, T2, T2) EXCEPT !.signals = 2] :
          v \in {"event", "sleep", "ctrlc"}, d \in 0..2}
  \* A value that spins under a Timeout, beside other branches and in the loop.
  \cup {Task("timeout", <<"spin", "sleep">>, <<0, d>>, T2, T2) : d \in 0..1}
  \cup {Task(f, <<"spin", "sleep", "event">>, <<0, 1, 0>>, T3, T3) : f \in {"join", "biased"}}
  \cup {[Task("select", <<"spin", "sleep">>, <<0, 2>>, T2, T2) EXCEPT !.rounds = 1]}
  \* An Interval next to work in a loop, and next to Ctrl+C.
  \cup {[Task(f, <<"event", "tick">>, <<0, 0>>, T2, T2)
            EXCEPT !.missed = m, !.time = 6, !.rounds = 4] :
          f \in {"select", "biased"}, m \in {"Burst", "Delay", "Skip"}}
  \cup {[Task("select", <<"tick", "ctrlc">>, <<0, 0>>, T2, T2)
            EXCEPT !.time = 3, !.signals = 2, !.rounds = 2]}

=============================================================================
