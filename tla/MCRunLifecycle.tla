--------------------------- MODULE MCRunLifecycle ---------------------------
(* Small instances of RunLifecycle for TLC, with one or two workers. *)
EXTENDS RunLifecycle, TLC

CONSTANTS w1, w2

MCOneWorker == {w1}
MCTwoWorkers == {w1, w2}
Symmetry == Permutations(MCTwoWorkers)
MCWorkerPool == [w \in MCTwoWorkers |-> "default"]

\* One run, of one task or of two.
MCOneRun == {1}
MCOneTask == <<1>>
MCTwoTasks == <<2>>
MCOneDataset == <<"d">>
MCOnePool == <<"default">>
MCUnlimited == <<0>>
MCOneInFlight == <<1>>

\* Two runs of different datasets, of two tasks and of one.
MCTwoRuns == 1..2
MCTwoAndOneTask == <<2, 1>>
MCTwoDatasets == <<"d", "e">>
MCTwoPools == <<"default", "default">>
MCTwoUnlimited == <<0, 0>>

\* Three runs of one task, the first and the third of one dataset.
MCThreeRuns == 1..3
MCOneTaskEach == <<1, 1, 1>>
MCDatasetReused == <<"d", "e", "d">>
MCThreePools == <<"default", "default", "default">>
MCThreeUnlimited == <<0, 0, 0>>
=============================================================================
