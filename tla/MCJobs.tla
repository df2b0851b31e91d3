------------------------------- MODULE MCJobs -------------------------------
EXTENDS Jobs, TLC

CONSTANTS j1, j2

\* Two revisions of one description, two questions in one window, and one of
\* each kind next to another.
MCAsks ==
  { j1 :> a[1] @@ j2 :> a[2] :
      a \in { <<"revision", "revision">>, <<"question", "question">>,
              <<"summary", "revision">> } }

\* A revision alone.
MCRevision == {j1 :> "revision"}
=============================================================================
