------------------------ MODULE MCSentimentConsumer ------------------------
\* Small instances of SentimentConsumer: the cfg files choose the kinds of
\* message, the length of the topic, the batch size and the fault budget.
EXTENDS SentimentConsumer

AllKinds == {"ok", "malformed", "poison"}
NoPoison == {"ok", "malformed"}
=============================================================================
