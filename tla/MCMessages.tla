------------------------------ MODULE MCMessages ------------------------------
EXTENDS Messages

CONSTANTS MaxCount,      \* elements, pixels, or characters of a name
          MaxChannels,   \* channels of a Connect packet
          MaxMessages

Some(types, counts, channels) == [type : types, count : counts, channels : channels]

Any == Some(Arrays \cup {"Image", "UpdateMsg"}, 0..MaxCount, {0})
       \cup Some(DOMAIN Fixed, {0}, {0})
       \cup Some({"Connect"}, 0..MaxCount, 0..MaxChannels)

AllStreams == UNION {[1..n -> Any] : n \in 1..MaxMessages}
=============================================================================
