---------------------------- MODULE MCMongoSink ----------------------------
\* Statements with one outcome (insertOne), two (deleteOne) and four (updateOne, which
\* stands for replaceOne as well).
EXTENDS MongoSink
=============================================================================
