-------------------------- MODULE MCKafkaReporter --------------------------
\* Instance of KafkaReporter for TLC.
EXTENDS KafkaReporter
=============================================================================
