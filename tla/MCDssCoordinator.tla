-------------------------- MODULE MCDssCoordinator --------------------------
\* Hosts of DssCoordinator: load asks and waits, storage only tells but blocks, and
\* fault is a host whose events do not block.
EXTENDS DssCoordinator

\* Lost updates may add up for ever; a state this far off is not followed further.
FewLost == num_block \in -1..3
=============================================================================
