SPECIFICATION SyncSpec
CONSTANTS
  Reference = t1
  Others = {t2}
  Times = {0, 1, 2, 3, 4}
  Untouched = untouched
  Garbage = garbage
  Careful = FALSE
  MaxPushed = 3
PROPERTIES NearestIsDelivered
