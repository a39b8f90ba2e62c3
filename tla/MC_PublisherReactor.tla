-------------------------- MODULE MC_PublisherReactor --------------------------
EXTENDS PublisherReactor, TLC

\* Two time periods with one HsDir each; a consensus may make the first
\* period alone, or both, relevant.
MCTPs == {1, 2}
MCHsDirsOf == (1 :> {"d1"}) @@ (2 :> {"d2"})
MCRelevantChoices == {<<1>>, <<1, 2>>}

\* The state without the service status the publisher reports (uploadRes,
\* svcState).  Those two variables are written only from each other and
\* from the rest of the state, and nothing else reads them, so two states
\* that agree on this view have the same behaviours on it.  Runs whose
\* properties do not mention the reported status explore this view.
ReactorView == <<status, notified, recent, rlDue, relevant, hsStatus, lastSucc,
                 reupload, notedIpt, cfgVer, authOk, envVars, tasks, resultsQ,
                 stored, revClash>>

=============================================================================
