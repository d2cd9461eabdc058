----------------------- MODULE MCSimpleRecurrentTask -----------------------
EXTENDS SimpleRecurrentTask

CONSTANTS t1, t2, t3

MCTasks == {t1, t2, t3}
MCMaxRuns == 3
=============================================================================
