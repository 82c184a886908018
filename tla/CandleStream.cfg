SPECIFICATION FairSpec
CONSTANT Subscribers = {s1, s2}
PROPERTIES
  StreamSpeaks
  AbandonedStreamsEnd
