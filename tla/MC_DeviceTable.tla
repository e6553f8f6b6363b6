-------------------------- MODULE MC_DeviceTable --------------------------
EXTENDS DeviceTable

\* Remove timeouts without the saving of names, and names saved without them.
MCSetups == {[timeouts |-> {0}, save |-> TRUE], [timeouts |-> {0, 1}, save |-> FALSE]}

\* Both at once.
MCSavingSetups == {[timeouts |-> {1}, save |-> TRUE]}

=============================================================================
